---------------------------- MODULE Spec2Model ----------------------------
(***************************************************************************)
(* Supplier-hub: the seeded supplier generators, and the stores and       *)
(* services around them.                                                   *)
(*                                                                         *)
(*   prog = "sg"    supplier-search-engine/backend/suppliers_generator.py  *)
(*   prog = "min"   supplier-search-engine/app_minimal.py                  *)
(*   prog = "seed"  app.py (generate_seed_suppliers)                       *)
(*   prog = "s"     suppliers.py                                           *)
(*   prog = "app"   app.py as a server: module load, then requests        *)
(*   prog = "us"    supplier-search-engine/backend/user_service.py and    *)
(*                  the session endpoints of backend/app.py               *)
(*   prog = "bs"    backend/services.py                                    *)
(*   prog = "auth"  supplier-search-engine/app_minimal.py: register/login *)
(*                                                                         *)
(* random.Random(seed) is the Mersenne Twister of the standard library.    *)
(* The model uses of it only what the generators rely on: the sequence of  *)
(* values random() returns is a function of the seed and of the number of  *)
(* values already consumed.  The values themselves are left open: the      *)
(* variable stream holds one period of the sequence, chosen arbitrarily    *)
(* in Init and never changed.                                              *)
(*                                                                         *)
(* A draw u in 0..DrawLevels-1 stands for the float u/DrawLevels, and      *)
(* u = DrawLevels stands for the largest float below 1.0, 1 - 2^-53.       *)
(***************************************************************************)
EXTENDS Integers, Sequences, FiniteSets, TLC

(* ------------------------------ bounds -------------------------------- *)

\* number of entries of product_categories that are used (10 in the source)
NumCategories == 2

\* suppliers per category (500 in suppliers_generator.py, 50 in app.py), and
\* the largest count passed to suppliers.py's generate_suppliers(count)
PerCategory == 2

\* length of one period of the random stream
StreamPeriod == 3

\* number of interior levels of a draw
DrawLevels == 2

\* number of calls of the generator that are followed
MaxCalls == 2

\* the requests and service calls a served program is followed through
MaxRequests == 3

\* the last reading of the clock, in days
MaxTime == 8

\* number of string hash seeds a process may start with
NumHashSeeds == 2

(* ------------------------- program constants -------------------------- *)

\* SeededRandom(1962)
SEED == 1962

\* while attempts < 20 / for attempt in range(20)
MaxAttempts == 20

\* if attempts > 10
SuffixAfter == 10

(* ------------------------------ tables -------------------------------- *)

SG_adjectives ==
    << "Premier", "Elite", "Pro", "Superior", "Quality", "Reliable", "National",
       "Metro", "Coastal", "Summit", "Precision", "BuildRight", "Apex", "Pioneer",
       "TruValue", "First Choice", "Top Tier", "Allied", "United", "Global", "Platinum",
       "Diamond", "Crown", "Ace", "Master", "Prime", "Advantage", "American",
       "Industrial", "Commercial", "Advanced", "Superior", "Dynamic", "Innovative",
       "Strategic", "Certified", "Professional", "Executive", "Specialist", "Expert",
       "Mega", "Ultra", "Super", "Best", "Direct", "Express", "Rapid", "Swift",
       "Instant", "Quick" >>

SG_company_types ==
    << "Inc.", "LLC", "Corp.", "Co.", "Supply Co.", "Distributors", "Materials",
       "Solutions", "Industries", "Group", "Enterprises", "Services", "Systems",
       "Technologies" >>

SG_certifications ==
    << "ISO 9001", "ISO 14001", "OSHA Certified", "EPA Certified", "NSF Certified",
       "UL Listed", "ANSI Certified", "Green Building", "Walmart Supplier Standards",
       "WBE Certified" >>

SG_cities ==
    << [city |-> "New York", state |-> "NY", region |-> "Northeast"],
       [city |-> "Los Angeles", state |-> "CA", region |-> "West"],
       [city |-> "Chicago", state |-> "IL", region |-> "Midwest"],
       [city |-> "Houston", state |-> "TX", region |-> "Southwest"],
       [city |-> "Phoenix", state |-> "AZ", region |-> "Southwest"],
       [city |-> "Philadelphia", state |-> "PA", region |-> "Northeast"],
       [city |-> "San Antonio", state |-> "TX", region |-> "Southwest"],
       [city |-> "San Diego", state |-> "CA", region |-> "West"],
       [city |-> "Dallas", state |-> "TX", region |-> "Southwest"],
       [city |-> "San Jose", state |-> "CA", region |-> "West"],
       [city |-> "Austin", state |-> "TX", region |-> "Southwest"],
       [city |-> "Jacksonville", state |-> "FL", region |-> "Southeast"],
       [city |-> "Fort Worth", state |-> "TX", region |-> "Southwest"],
       [city |-> "Columbus", state |-> "OH", region |-> "Midwest"],
       [city |-> "Charlotte", state |-> "NC", region |-> "Southeast"],
       [city |-> "Seattle", state |-> "WA", region |-> "West"],
       [city |-> "Denver", state |-> "CO", region |-> "West"],
       [city |-> "Boston", state |-> "MA", region |-> "Northeast"],
       [city |-> "Portland", state |-> "OR", region |-> "West"],
       [city |-> "Las Vegas", state |-> "NV", region |-> "West"],
       [city |-> "Detroit", state |-> "MI", region |-> "Midwest"],
       [city |-> "Memphis", state |-> "TN", region |-> "Southeast"],
       [city |-> "Baltimore", state |-> "MD", region |-> "Northeast"],
       [city |-> "Milwaukee", state |-> "WI", region |-> "Midwest"],
       [city |-> "Atlanta", state |-> "GA", region |-> "Southeast"],
       [city |-> "Miami", state |-> "FL", region |-> "Southeast"],
       [city |-> "Indianapolis", state |-> "IN", region |-> "Midwest"],
       [city |-> "Kansas City", state |-> "MO", region |-> "Midwest"],
       [city |-> "Minneapolis", state |-> "MN", region |-> "Midwest"],
       [city |-> "Raleigh", state |-> "NC", region |-> "Southeast"] >>

SG_product_categories ==
    << 
       [category |-> "Lumber & Wood Products", products |-> <<"2x4 Lumber", "Plywood", "Particle Board", "MDF", "Hardwood Flooring", "Cedar Shingles">>],
       [category |-> "Concrete & Masonry", products |-> <<"Portland Cement", "Ready-Mix Concrete", "Cinder Blocks", "Bricks", "Gravel", "Sand">>],
       [category |-> "Steel & Metal", products |-> <<"Steel Beams", "Rebar", "Steel Pipe", "Aluminum Siding", "Metal Roofing", "Wire Mesh">>],
       [category |-> "Electrical Supplies", products |-> <<"Electrical Wire", "Outlets", "Light Fixtures", "Circuit Breakers", "Conduit", "Switches">>],
       [category |-> "Plumbing Supplies", products |-> <<"PVC Pipe", "Copper Pipe", "Faucets", "Valves", "Toilets", "Sink Fixtures">>],
       [category |-> "HVAC Equipment", products |-> <<"Air Conditioning Units", "Furnaces", "Heat Pumps", "Ductwork", "Thermostats", "Insulation">>],
       [category |-> "Roofing Materials", products |-> <<"Asphalt Shingles", "Metal Roofing", "Tar & Gravel", "Underlayment", "Flashing", "Gutters">>],
       [category |-> "Windows & Doors", products |-> <<"Vinyl Windows", "Wood Doors", "Sliding Glass Doors", "Storm Windows", "Hardware", "Weather Stripping">>],
       [category |-> "Paint & Finishes", products |-> <<"Interior Paint", "Exterior Paint", "Primer", "Stain", "Polyurethane", "Caulk">>],
       [category |-> "Hardware & Fasteners", products |-> <<"Nails", "Screws", "Bolts", "Hinges", "Locks", "Tools">>] >>

Min_adjectives ==
    << "Premier", "Elite", "Pro", "Superior", "Quality", "Reliable", "National",
       "Metro", "Coastal", "Summit", "Precision", "BuildRight", "Apex", "Pioneer",
       "TruValue", "First Choice", "Top Tier", "Allied", "United", "Global", "Platinum",
       "Diamond", "Crown", "Ace", "Master", "Prime", "Advantage", "American",
       "Industrial", "Commercial", "Advanced", "Dynamic", "Innovative", "Strategic",
       "Certified", "Professional", "Executive", "Specialist", "Expert", "Mega",
       "Ultra", "Super", "Best", "Direct", "Express", "Rapid", "Swift", "Instant",
       "Quick" >>

Seed_adjectives ==
    << "Premier", "Elite", "Pro", "Superior", "Quality", "Reliable", "National",
       "Metro", "Allied", "United" >>

Seed_cities ==
    << [city |-> "New York", state |-> "NY"], [city |-> "Los Angeles", state |-> "CA"],
       [city |-> "Chicago", state |-> "IL"], [city |-> "Houston", state |-> "TX"],
       [city |-> "Dallas", state |-> "TX"], [city |-> "Denver", state |-> "CO"],
       [city |-> "Seattle", state |-> "WA"], [city |-> "Atlanta", state |-> "GA"],
       [city |-> "Miami", state |-> "FL"], [city |-> "Boston", state |-> "MA"] >>

Seed_product_categories ==
    << 
       [category |-> "Lumber & Wood Products", products |-> <<"2x4 Lumber", "Plywood", "Particle Board", "MDF", "Hardwood Flooring">>],
       [category |-> "Concrete & Masonry", products |-> <<"Portland Cement", "Ready-Mix Concrete", "Cinder Blocks", "Bricks">>],
       [category |-> "Steel & Metal", products |-> <<"Steel Beams", "Rebar", "Steel Pipe", "Aluminum Siding">>],
       [category |-> "Electrical Supplies", products |-> <<"Electrical Wire", "Outlets", "Light Fixtures", "Circuit Breakers">>],
       [category |-> "Plumbing Supplies", products |-> <<"PVC Pipe", "Copper Pipe", "Faucets", "Valves">>],
       [category |-> "HVAC Equipment", products |-> <<"Air Conditioning Units", "Furnaces", "Heat Pumps", "Ductwork">>],
       [category |-> "Roofing Materials", products |-> <<"Asphalt Shingles", "Metal Roofing", "Tar & Gravel">>],
       [category |-> "Windows & Doors", products |-> <<"Vinyl Windows", "Wood Doors", "Sliding Glass Doors">>],
       [category |-> "Paint & Finishes", products |-> <<"Interior Paint", "Exterior Paint", "Primer", "Stain">>],
       [category |-> "Hardware & Fasteners", products |-> <<"Nails", "Screws", "Bolts", "Hinges">>] >>

S_product_categories ==
    << 
       [category |-> "Lumber & Wood Products", products |-> <<"2x4 Lumber", "Plywood", "Particle Board", "MDF", "Hardwood Flooring", "Pressure Treated Wood", "Composite Decking", "Cedar Shingles">>],
       [category |-> "Concrete & Masonry", products |-> <<"Portland Cement", "Ready-Mix Concrete", "Cinder Blocks", "Bricks", "Concrete Pavers", "Retaining Wall Blocks", "Mortar Mix", "Concrete Sealers">>],
       [category |-> "Steel & Metal", products |-> <<"Steel Beams", "Rebar", "Steel Pipe", "Aluminum Siding", "Corrugated Metal", "Steel Roofing", "Metal Studs", "Angle Iron">>],
       [category |-> "Electrical Supplies", products |-> <<"Electrical Wire", "Outlets", "Light Fixtures", "Circuit Breakers", "Conduit", "Switch Plates", "Transformers", "Panel Boards">>],
       [category |-> "Plumbing Supplies", products |-> <<"PVC Pipe", "Copper Pipe", "Faucets", "Valves", "Shut-Off Valves", "Water Heaters", "Drain Cleanout", "Plumbing Fixtures">>],
       [category |-> "HVAC Equipment", products |-> <<"Air Conditioning Units", "Furnaces", "Heat Pumps", "Ductwork", "Thermostats", "Refrigerant", "HVAC Filters", "Compressors">>],
       [category |-> "Roofing Materials", products |-> <<"Asphalt Shingles", "Metal Roofing", "Tar & Gravel", "Roof Underlayment", "Ridge Caps", "Roof Vents", "Flashing", "Roofing Nails">>],
       [category |-> "Windows & Doors", products |-> <<"Vinyl Windows", "Wood Doors", "Sliding Glass Doors", "Garage Doors", "Exterior Doors", "Interior Doors", "Window Frames", "Door Hinges">>],
       [category |-> "Paint & Finishes", products |-> <<"Interior Paint", "Exterior Paint", "Primer", "Stain", "Polyurethane", "Epoxy Paint", "Sealers", "Paint Thinner">>],
       [category |-> "Hardware & Fasteners", products |-> <<"Nails", "Screws", "Bolts", "Anchors", "Hinges", "Latches", "Handles", "Brackets">>] >>

S_regions ==
    << "Northeast", "Southeast", "Midwest", "Southwest", "West Coast", "Pacific",
       "Mountain", "Great Plains", "South Central" >>

S_certifications ==
    << "ISO 9001", "ISO 14001", "OSHA Certified", "EPA Certified", "UL Listed",
       "CSA Certified", "NSF Certified", "LEED Certified", "RoHS Compliant",
       "ITAR Registered" >>

S_company_prefixes ==
    << "Advanced", "Allied", "American", "Anderson", "Austin", "Baker", "Benson",
       "Best", "Big", "Blue", "Border", "Bradford", "Bright", "Bristol", "Brown",
       "Builders", "Capital", "Cardinal", "Central", "Century", "Champion", "Coastal",
       "Columbia", "Commercial", "Complete", "Consolidated", "Construction",
       "Continental", "Cooper", "Cornerstone", "Corporate", "Craftsman", "Creative",
       "Crown", "Crystal", "Custom", "Dakota", "Dayton", "Delta", "Denver", "Diamond",
       "Diversified", "East", "Eastern", "Economy", "Electrical", "Elite", "Emery",
       "Empire", "Enterprise", "Epic", "Essential", "Estelle", "Eternal", "Evergreen",
       "Excellence", "Excellent", "Executive", "Expo", "Express" >>

S_company_suffixes ==
    << "Supply", "Supplies", "Company", "Corporation", "Industries", "Inc", "LLC",
       "Materials", "Group", "Distributors", "Traders", "Wholesale", "Retail", "Sales",
       "Services", "Solutions", "Systems", "Tech", "Technologies", "Tools", "Trade",
       "Trading", "Works", "Workshop" >>

FirstWord(category) ==
    CASE category = "Lumber & Wood Products" -> "Lumber"
      [] category = "Concrete & Masonry" -> "Concrete"
      [] category = "Steel & Metal" -> "Steel"
      [] category = "Electrical Supplies" -> "Electrical"
      [] category = "Plumbing Supplies" -> "Plumbing"
      [] category = "HVAC Equipment" -> "HVAC"
      [] category = "Roofing Materials" -> "Roofing"
      [] category = "Windows & Doors" -> "Windows"
      [] category = "Paint & Finishes" -> "Paint"
      [] category = "Hardware & Fasteners" -> "Hardware"

(* ------------------------ the random stream --------------------------- *)

VARIABLES
    prog,          \* which program runs
    stream,        \* one period of the values random() returns for seed 0
    hashseed,      \* the string hash seed of the current process
    proc,          \* identity of the current process
    seeded_rng,    \* the generator object's random.Random: [seed, pos]
    obj,           \* identity of the current generator object
    nth,           \* calls made so far on the current object
    ncalls,        \* calls made so far in all
    pc,            \* position of the running call
    loc,           \* local variables of the running call
    suppliers,     \* the list under construction
    used_names,    \* names handed out so far in the running call
    supplier_id,   \* the id counter of the running call
    results,       \* what the finished calls returned
    drawn,         \* the fields the draws of the current record went to
    \* app.py
    ALL_SUPPLIERS, USER_FAVORITES, USER_NOTES, USER_SESSIONS,
    key_order,     \* the keys of ALL_SUPPLIERS in the order of insertion
    \* user_service.py: the fields of the global UserService, and the clock
    users, favorites, notes, inbox, sessions, now,
    \* backend/services.py: the fields of SupplierService and UserService
    _suppliers, _next_id, _users, _user_favorites, _user_notes,
    \* app_minimal.py
    USERS, SESSIONS,
    inflight,      \* worker thread -> the register request it is running
    \* csv_importer.py
    db,            \* the names of the Supplier rows in the database
    nreq,          \* requests and service calls made so far
    fresh,         \* random identifiers (uuid4, token_hex) made so far
    resp,          \* what the last request or service call returned
    \* what has been asked of the services so far
    last_call,     \* (user, supplier id) -> "add" or "remove", the latest
    registered,    \* username -> the password its registration gave
    creates,       \* the number of SupplierService.create calls
    deletes,       \* the number of SupplierService.delete calls returning True
    created,       \* id -> the data of its create, and whether update or
                   \* delete has been called on it since
    issued,        \* the session tokens the logins have returned
    ended,         \* the tokens logged out or found expired
    gone           \* (kind, user, id): the supplier id was deleted and the
                   \* user has not added a favourite or note for it since

gen_vars == <<stream, hashseed, proc, seeded_rng, obj, nth, ncalls, pc, loc,
              suppliers, used_names, supplier_id, results, drawn>>

app_vars == <<ALL_SUPPLIERS, USER_FAVORITES, USER_NOTES, USER_SESSIONS,
              key_order>>

us_vars == <<users, favorites, notes, inbox, sessions, now>>

bs_vars == <<_suppliers, _next_id, _users, _user_favorites, _user_notes>>

auth_vars == <<USERS, SESSIONS, inflight>>

csv_vars == <<db>>

hist_vars == <<last_call, registered, creates, deletes, created, issued,
               ended, gone>>

req_vars == <<nreq, fresh, resp, hist_vars>>

\* what the generators leave alone
svc_vars == <<app_vars, us_vars, bs_vars, auth_vars, csv_vars, req_vars>>

vars == <<prog, gen_vars, svc_vars>>

Draws == 0..DrawLevels

Top == DrawLevels

\* random.Random() seeded from the clock instead of the argument
NewRandom_unseeded(seed) == [seed |-> seed + ncalls + obj, pos |-> 0]

\* random.Random(seed): a generator positioned at the start of the stream
\* that belongs to the seed
NewRandom(seed) == [seed |-> seed, pos |-> 0]

\* the value the k-th next call of random() returns (k = 0 for the next)
Random(r, k) == stream[(r.seed + r.pos + k) % StreamPeriod]

\* the generator after n calls of random()
Advance(r, n) == [r EXCEPT !.pos = @ + n]

(* ------------------------- float arithmetic --------------------------- *)

RECURSIVE FloorLog2(_)
FloorLog2(n) == IF n <= 1 THEN 0 ELSE 1 + FloorLog2(n \div 2)

\* int(u * a + b) for integers a >= 1, b >= 0.  For an interior level the
\* product is exact up to a rounding that never crosses an integer.  For
\* u = 1 - 2^-53 the product rounds to the float just below a, and adding b
\* rounds up to a + b exactly when the sum lies in a higher binade than
\* the product.
IntScale(u, a, b) ==
    IF u = Top
    THEN IF FloorLog2(a + b - 1) > FloorLog2(a - 1) THEN a + b ELSE a + b - 1
    ELSE b + ((u * a) \div DrawLevels)

\* seq[int(u * len(seq))], on a 1-based sequence
Pick(seq, u) == seq[IntScale(u, Len(seq), 0) + 1]

\* the offset one tenth too high
RoundTenths_high(u, a10, b10) ==
    IF u = Top
    THEN a10 + b10 + 1
    ELSE LET num == (b10 + 1) * DrawLevels + a10 * u
             q == num \div DrawLevels
             r == num % DrawLevels
         IN  IF 2 * r < DrawLevels THEN q
             ELSE IF 2 * r > DrawLevels THEN q + 1
             ELSE IF q % 2 = 0 THEN q ELSE q + 1

\* round(u * a + b, 1) in tenths, a10 = 10a and b10 = 10b;
\* Python rounds an exact tie to the even neighbour
RoundTenths(u, a10, b10) ==
    IF u = Top
    THEN a10 + b10
    ELSE LET num == b10 * DrawLevels + a10 * u
             q == num \div DrawLevels
             r == num % DrawLevels
         IN  IF 2 * r < DrawLevels THEN q
             ELSE IF 2 * r > DrawLevels THEN q + 1
             ELSE IF q % 2 = 0 THEN q ELSE q + 1

\* u > num/den for a threshold below 1
Above(u, num, den) == IF u = Top THEN TRUE ELSE u * den > num * DrawLevels

(* --------------------------- configuration ---------------------------- *)

\* self.product_categories, in insertion order
product_categories ==
    CASE prog = "sg"   -> SubSeq(SG_product_categories, 1, NumCategories)
      [] prog \in {"min", "auth"} ->
             SubSeq(SG_product_categories, 1, NumCategories)
      [] prog \in {"seed", "app"} ->
             SubSeq(Seed_product_categories, 1, NumCategories)
      [] OTHER         -> SubSeq(S_product_categories, 1, NumCategories)

\* the literal 5000 of the source, which is 10 categories x 500
TotalSuppliers == NumCategories * PerCategory

\* suppliers_per_category = 5000 // len(self.product_categories)
suppliers_per_category ==
    IF prog \in {"seed", "app"} THEN PerCategory
    ELSE TotalSuppliers \div Len(product_categories)

None == "None"

NoLoc == [cat |-> 0, i |-> 0]

\* the locals at the top of the body of the inner loop (supplier_name = None,
\* attempts = 0, category_short = category.split()[0]); the locals that the
\* body assigns before it reads them start as None

LoopTop(cat, i) ==
    [cat |-> cat, i |-> i, attempts |-> 0,
     category |-> product_categories[cat].category,
     products |-> product_categories[cat].products,
     category_short |-> FirstWord(product_categories[cat].category),
     adj |-> None, type_suffix |-> None, supplier_name |-> None,
     city_data |-> None, k |-> 0,
     num_products |-> 0, supplier_products |-> <<>>,
     num_certs |-> 0, supplier_certs |-> <<>>]

\* range(n - 1) instead of range(n): the last record of a category is lost
NextIter_short(cat, i) ==
    IF suppliers_per_category > 0 /\ i + 1 < suppliers_per_category - 1
    THEN <<cat, i + 1>>
    ELSE IF suppliers_per_category > 0 /\ cat + 1 <= Len(product_categories)
    THEN <<cat + 1, 0>>
    ELSE <<0, 0>>

\* the two loops nested the other way round
NextIter_swapped(cat, i) ==
    IF suppliers_per_category > 0 /\ cat + 1 <= Len(product_categories)
    THEN <<cat + 1, i>>
    ELSE IF suppliers_per_category > 0 /\ i + 1 < suppliers_per_category
    THEN <<1, i + 1>>
    ELSE <<0, 0>>

\* for category, products in ....items(): for i in range(n): the iteration
\* that follows iteration (cat, i); cat = 0 when both loops are exhausted
NextIter(cat, i) ==
    IF suppliers_per_category > 0 /\ i + 1 < suppliers_per_category
    THEN <<cat, i + 1>>
    ELSE IF suppliers_per_category > 0 /\ cat + 1 <= Len(product_categories)
    THEN <<cat + 1, 0>>
    ELSE <<0, 0>>

FirstIter ==
    IF suppliers_per_category > 0 /\ Len(product_categories) > 0
    THEN <<1, 0>> ELSE <<0, 0>>

\* the counter restarted with every category
IdAfterAppend_restart ==
    IF loc.i + 1 < suppliers_per_category THEN supplier_id + 1 ELSE 1

\* supplier_id += 1
IdAfterAppend == supplier_id + 1

\* what a call leaves behind when it returns the list out
Returned(out) ==
    Append(results, [proc |-> proc, obj |-> obj, nth |-> nth, out |-> out])

(* ------------------------------- Init --------------------------------- *)

\* the seeds of the string hash: every process draws its own when it starts
\* (PYTHONHASHSEED)
HashSeeds == 1..NumHashSeeds

\* the slots of the hash table behind a small set
SetSlots == 7

\* sg and s construct their generator object when the module is loaded;
\* min and seed construct a SeededRandom inside every call; app.py calls
\* generate_seed_suppliers once in every process that loads it
\* an empty dict
EmptyDict == <<>>

\* an Optional result: the set of the value returned, empty for None
NoValue == {}

Value(x) == {x}

\* the module-level stores and the service objects as they are created
InitStores ==
    /\ ALL_SUPPLIERS = EmptyDict
    /\ key_order = <<>>
    /\ USER_FAVORITES = EmptyDict
    /\ USER_NOTES = EmptyDict
    /\ USER_SESSIONS = EmptyDict
    /\ users = EmptyDict
    /\ favorites = EmptyDict
    /\ notes = EmptyDict
    /\ inbox = EmptyDict
    /\ sessions = EmptyDict
    /\ now = 0
    /\ _suppliers = EmptyDict
    /\ _next_id = 1
    /\ _users = EmptyDict
    /\ _user_favorites = EmptyDict
    /\ _user_notes = EmptyDict
    /\ USERS = EmptyDict
    /\ SESSIONS = EmptyDict
    /\ inflight = EmptyDict
    /\ db = {}
    /\ nreq = 0
    /\ fresh = 0
    /\ resp = [op |-> "none"]
    /\ last_call = EmptyDict
    /\ registered = EmptyDict
    /\ creates = 0
    /\ deletes = 0
    /\ created = EmptyDict
    /\ issued = {}
    /\ ended = {}
    /\ gone = {}

Init ==
    /\ prog \in {"sg", "min", "seed", "s"}
    /\ stream \in [0..(StreamPeriod - 1) -> Draws]
    /\ hashseed = None
    /\ proc = IF prog \in {"seed", "app"} THEN 0 ELSE 1
    /\ ncalls = 0
    /\ nth = 0
    /\ obj = IF prog \in {"sg", "s"} THEN 1 ELSE 0
    /\ seeded_rng = IF prog \in {"sg", "s"} THEN NewRandom(SEED) ELSE None
    /\ pc = "idle"
    /\ loc = NoLoc
    /\ suppliers = <<>>
    /\ used_names = {}
    /\ supplier_id = 0
    /\ results = <<>>
    /\ drawn = <<>>
    /\ InitStores

(* ----------------- suppliers_generator.py: SupplierGenerator ---------- *)

\* SupplierGenerator(): a second generator object
SG_init ==
    /\ prog = "sg" /\ pc = "idle" /\ nth > 0 /\ ncalls < MaxCalls
    /\ seeded_rng' = NewRandom(SEED)
    /\ obj' = obj + 1
    /\ nth' = 0
    /\ UNCHANGED <<prog, stream, hashseed, proc, ncalls, pc, loc, suppliers, used_names,
                   supplier_id, results>>
    /\ UNCHANGED drawn
    /\ UNCHANGED svc_vars

\* generate_suppliers(): entry, up to the first iteration of the loops
SG_generate_suppliers ==
    /\ prog = "sg" /\ pc = "idle" /\ ncalls < MaxCalls
    /\ ncalls' = ncalls + 1
    /\ nth' = nth + 1
    /\ suppliers' = <<>>
    /\ used_names' = {}
    /\ supplier_id' = 1
    /\ IF FirstIter[1] = 0
       THEN /\ pc' = "idle"
            /\ loc' = NoLoc
            /\ results' = Append(results,
                                 [proc |-> proc, obj |-> obj, nth |-> nth + 1,
                                  out |-> <<>>])
       ELSE /\ pc' = "name"
            /\ loc' = LoopTop(FirstIter[1], FirstIter[2])
            /\ UNCHANGED results
    /\ UNCHANGED <<prog, stream, hashseed, proc, seeded_rng, obj>>
    /\ drawn' = <<>>
    /\ UNCHANGED svc_vars

\* the draws of the current record before an iteration of the name loop
DrawnBefore == IF loc.attempts = 0 THEN <<>> ELSE drawn

NameIsNew_always(supplier_name) == TRUE

\* if supplier_name not in used_names
NameIsNew(supplier_name) == supplier_name \notin used_names

\* one iteration of "while attempts < 20", and the exit of the loop
SG_name ==
    /\ prog = "sg" /\ pc = "name" /\ loc.attempts < MaxAttempts
    /\ LET adj == Pick(SG_adjectives, Random(seeded_rng, 0))
           type_suffix == Pick(SG_company_types, Random(seeded_rng, 1))
           supplier_name == <<adj, loc.category_short, type_suffix>>
           attempts == loc.attempts + 1
           l1 == [loc EXCEPT !.attempts = attempts, !.adj = adj,
                             !.type_suffix = type_suffix,
                             !.supplier_name = supplier_name]
       IN  IF NameIsNew(supplier_name)
           THEN /\ loc' = l1
                /\ seeded_rng' = Advance(seeded_rng, 2)
                /\ drawn' = DrawnBefore \o <<"adjective", "type">>
                /\ pc' = "city"
           ELSE IF attempts > SuffixAfter
           THEN /\ loc' = [l1 EXCEPT !.supplier_name =
                              <<adj, loc.category_short, type_suffix,
                                IntScale(Random(seeded_rng, 2), 999, 1)>>]
                /\ seeded_rng' = Advance(seeded_rng, 3)
                /\ drawn' = DrawnBefore \o <<"adjective", "type", "suffix">>
                /\ pc' = "city"
           ELSE /\ loc' = l1
                /\ seeded_rng' = Advance(seeded_rng, 2)
                /\ drawn' = DrawnBefore \o <<"adjective", "type">>
                /\ pc' = IF attempts < MaxAttempts THEN "name" ELSE "city"
    /\ UNCHANGED <<prog, stream, hashseed, proc, obj, nth, ncalls, suppliers, used_names,
                   supplier_id, results>>
    /\ UNCHANGED svc_vars

\* used_names.add(supplier_name); city_data = ...
City ==
    /\ prog \in {"sg", "min", "auth"} /\ pc = "city"
    /\ used_names' = used_names \cup {loc.supplier_name}
    /\ loc' = [loc EXCEPT
                  !.city_data = Pick(SG_cities, Random(seeded_rng, 0))]
    /\ seeded_rng' = Advance(seeded_rng, 1)
    /\ pc' = "num_products"
    /\ UNCHANGED <<prog, stream, hashseed, proc, obj, nth, ncalls, suppliers, supplier_id,
                   results>>
    /\ drawn' = Append(drawn, "location")
    /\ UNCHANGED svc_vars

\* the "+ 2" left out
SG_num_products_from0(u) == IntScale(u, 5, 0)

\* int(self.seeded_rng.random() * 5) + 2
SG_num_products(u) == IntScale(u, 5, 0) + 2

\* num_products = int(random() * 5) + 2; supplier_products = []
NumProducts ==
    /\ prog \in {"sg", "min", "auth"} /\ pc = "num_products"
    /\ loc' = [loc EXCEPT
                  !.num_products = SG_num_products(Random(seeded_rng, 0)),
                  !.supplier_products = <<>>,
                  !.k = 0]
    /\ seeded_rng' = Advance(seeded_rng, 1)
    /\ pc' = IF SG_num_products(Random(seeded_rng, 0)) > 0
             THEN "products" ELSE "num_certs"
    /\ UNCHANGED <<prog, stream, hashseed, proc, obj, nth, ncalls, suppliers, used_names,
                   supplier_id, results>>
    /\ drawn' = Append(drawn, "product count")
    /\ UNCHANGED svc_vars

\* the elements of a sequence
Range(s) == {s[n] : n \in DOMAIN s}

\* the membership test left out
AppendUnique_always(list, x) == Append(list, x)

\* if x not in list: list.append(x)
AppendUnique(list, x) == IF x \notin Range(list) THEN Append(list, x) ELSE list

\* one iteration of "for _ in range(num_products)"
Product ==
    /\ prog \in {"sg", "min", "auth"} /\ pc = "products"
    /\ loc.k < loc.num_products
    /\ LET prod == Pick(loc.products, Random(seeded_rng, 0))
       IN  loc' = [loc EXCEPT
                     !.supplier_products =
                         AppendUnique(@, prod),
                     !.k = @ + 1]
    /\ seeded_rng' = Advance(seeded_rng, 1)
    /\ pc' = IF loc.k + 1 < loc.num_products THEN "products" ELSE "num_certs"
    /\ UNCHANGED <<prog, stream, hashseed, proc, obj, nth, ncalls, suppliers, used_names,
                   supplier_id, results>>
    /\ drawn' = Append(drawn, "product")
    /\ UNCHANGED svc_vars

\* num_certs = int(random() * 3) + 1; supplier_certs = []
NumCerts ==
    /\ prog \in {"sg", "min", "auth"} /\ pc = "num_certs"
    /\ loc' = [loc EXCEPT
                  !.num_certs = IntScale(Random(seeded_rng, 0), 3, 0) + 1,
                  !.supplier_certs = <<>>,
                  !.k = 0]
    /\ seeded_rng' = Advance(seeded_rng, 1)
    /\ pc' = IF IntScale(Random(seeded_rng, 0), 3, 0) + 1 > 0
             THEN "certs" ELSE "build"
    /\ UNCHANGED <<prog, stream, hashseed, proc, obj, nth, ncalls, suppliers, used_names,
                   supplier_id, results>>
    /\ drawn' = Append(drawn, "certification count")
    /\ UNCHANGED svc_vars

\* one iteration of "for _ in range(num_certs)"
Cert ==
    /\ prog \in {"sg", "min", "auth"} /\ pc = "certs" /\ loc.k < loc.num_certs
    /\ LET cert == Pick(SG_certifications, Random(seeded_rng, 0))
       IN  loc' = [loc EXCEPT
                     !.supplier_certs =
                         AppendUnique(@, cert),
                     !.k = @ + 1]
    /\ seeded_rng' = Advance(seeded_rng, 1)
    /\ pc' = IF loc.k + 1 < loc.num_certs THEN "certs" ELSE "build"
    /\ UNCHANGED <<prog, stream, hashseed, proc, obj, nth, ncalls, suppliers, used_names,
                   supplier_id, results>>
    /\ drawn' = Append(drawn, "certification")
    /\ UNCHANGED svc_vars

\* the dictionary display of suppliers_generator.py; its values are
\* evaluated top to bottom, d[n] being the n-th draw it makes
SG_supplier(d) ==
    [id |-> supplier_id,
     name |-> loc.supplier_name,
     description |-> <<loc.category, IntScale(d[1], 40, 5),
                       loc.city_data.region>>,
     website |-> <<loc.adj, loc.category_short>>,
     email |-> <<Pick(<<"sales", "info", "contact", "support">>, d[2]),
                 loc.adj, loc.category_short>>,
     phone |-> <<IntScale(d[3], 900, 200), IntScale(d[4], 900, 200),
                 IntScale(d[5], 9000, 1000)>>,
     address |-> <<IntScale(d[6], 9000, 1000),
                   Pick(<<"Main", "Oak", "Maple", "Industrial", "Commerce",
                          "Market", "Park", "Center">>, d[7]),
                   Pick(<<"Street", "Avenue", "Boulevard", "Drive", "Way",
                          "Road">>, d[8])>>,
     city |-> loc.city_data.city,
     state |-> loc.city_data.state,
     category |-> loc.category,
     products |-> loc.supplier_products,
     location |-> <<loc.city_data.city, loc.city_data.state>>,
     region |-> loc.city_data.region,
     rating |-> RoundTenths(d[9], 15, 35),
     aiScore |-> IntScale(d[10], 30, 70),
     certifications |-> loc.supplier_certs,
     size |-> Pick(<<"Small (1-50)", "Medium (51-250)", "Large (251-1000)",
                     "Enterprise (1000+)">>, d[11]),
     priceRange |-> Pick(<<"Budget ($)", "Mid-Range ($$)", "Premium ($$$)",
                           "Enterprise ($$$$)">>, d[12]),
     yearsInBusiness |-> IntScale(d[13], 40, 5),
     projectsCompleted |-> IntScale(d[14], 5000, 100),
     walmartVerified |-> Above(d[15], 7, 10),
     employees |-> IntScale(d[16], 900, 50),
     responseTime |-> IntScale(d[17], 24, 1),
     minOrder |-> IntScale(d[18], 50, 10) * 100,
     paymentTerms |-> Pick(<<"Net 30", "Net 60", "2/10 Net 30", "Credit Card",
                             "COD">>, d[19])]

\* the fields the draws d[1], d[2], ... of SG_supplier go to
SG_fields ==
    <<"description", "email", "phone", "phone", "phone", "address", "address",
      "address", "rating", "aiScore", "size", "priceRange", "yearsInBusiness",
      "projectsCompleted", "walmartVerified", "employees", "responseTime",
      "minOrder", "paymentTerms">>

\* the end of the loop body: advance the loops or return the list
EndOfBody(out) ==
    LET nx == NextIter(loc.cat, loc.i)
    IN  IF nx[1] = 0
        THEN /\ pc' = "idle"
             /\ loc' = NoLoc
             /\ results' = Returned(out)
        ELSE /\ pc' = "name"
             /\ loc' = LoopTop(nx[1], nx[2])
             /\ UNCHANGED results

\* supplier = {...}; suppliers.append(supplier); supplier_id += 1
SG_append ==
    /\ prog = "sg" /\ pc = "build"
    /\ LET d == [n \in 1..19 |-> Random(seeded_rng, n - 1)]
       IN  /\ suppliers' = Append(suppliers, SG_supplier(d))
           /\ EndOfBody(Append(suppliers, SG_supplier(d)))
    /\ seeded_rng' = Advance(seeded_rng, 19)
    /\ supplier_id' = IdAfterAppend
    /\ UNCHANGED <<prog, stream, hashseed, proc, obj, nth, ncalls, used_names>>
    /\ drawn' = drawn \o SG_fields
    /\ UNCHANGED svc_vars

(* ----------------------- app_minimal.py: generate_suppliers ------------ *)

\* the calls of the generator that are followed: MaxCalls where the
\* generated lists are compared, the one of the module load where requests
\* are served (app.py and app_minimal.py)
MaxLoads == IF prog \in {"app", "auth"} THEN 1 ELSE MaxCalls

\* generate_suppliers(): entry, up to the first iteration of the loops;
\* app_minimal.py calls it once when the module is loaded
Min_generate_suppliers ==
    /\ prog \in {"min", "auth"} /\ pc = "idle" /\ ncalls < MaxLoads
    /\ ncalls' = ncalls + 1
    /\ obj' = obj + 1
    /\ nth' = 1
    /\ suppliers' = <<>>
    /\ used_names' = {}
    /\ supplier_id' = 1
    /\ IF FirstIter[1] = 0
       THEN /\ pc' = "idle"
            /\ loc' = NoLoc
            /\ seeded_rng' = None
            /\ results' = Append(results,
                                 [proc |-> proc, obj |-> obj + 1, nth |-> 1,
                                  out |-> <<>>])
       ELSE /\ pc' = "name"
            /\ loc' = LoopTop(FirstIter[1], FirstIter[2])
            /\ seeded_rng' = NewRandom(SEED)
            /\ UNCHANGED results
    /\ UNCHANGED <<prog, stream, hashseed, proc>>
    /\ drawn' = <<>>
    /\ UNCHANGED svc_vars

\* one iteration of "for attempt in range(20)", and the exit of the loop
Min_name ==
    /\ prog \in {"min", "auth"} /\ pc = "name" /\ loc.attempts < MaxAttempts
    /\ LET adj == Pick(Min_adjectives, Random(seeded_rng, 0))
           type_suffix == Pick(SG_company_types, Random(seeded_rng, 1))
           name == <<adj, loc.category_short, type_suffix>>
       IN  /\ loc' = [loc EXCEPT !.attempts = @ + 1, !.adj = adj,
                                 !.type_suffix = type_suffix,
                                 !.supplier_name = name]
           /\ pc' = IF name \notin used_names THEN "city"
                    ELSE IF loc.attempts + 1 < MaxAttempts THEN "name"
                    ELSE "city"
    /\ seeded_rng' = Advance(seeded_rng, 2)
    /\ UNCHANGED <<prog, stream, hashseed, proc, obj, nth, ncalls, suppliers,
                   used_names, supplier_id, results>>
    /\ drawn' = DrawnBefore \o <<"adjective", "type">>
    /\ UNCHANGED svc_vars

\* the dictionary display of app_minimal.py, d[n] being its n-th draw
Min_supplier(d) ==
    [id |-> supplier_id,
     name |-> loc.supplier_name,
     category |-> loc.category,
     location |-> <<loc.city_data.city, loc.city_data.state>>,
     region |-> loc.city_data.region,
     rating |-> RoundTenths(d[1], 15, 35),
     aiScore |-> IntScale(d[2], 30, 70),
     products |-> loc.supplier_products,
     certifications |-> loc.supplier_certs,
     walmartVerified |-> Above(d[3], 4, 10),
     yearsInBusiness |-> IntScale(d[4], 40, 5),
     projectsCompleted |-> IntScale(d[5], 5000, 100)]

\* the fields the draws d[1], d[2], ... of Min_supplier go to
Min_fields ==
    <<"rating", "aiScore", "walmartVerified", "yearsInBusiness",
      "projectsCompleted">>

\* suppliers.append({...}); supplier_id += 1
Min_append ==
    /\ prog \in {"min", "auth"} /\ pc = "build"
    /\ LET d == [n \in 1..5 |-> Random(seeded_rng, n - 1)]
       IN  /\ suppliers' = Append(suppliers, Min_supplier(d))
           /\ EndOfBody(Append(suppliers, Min_supplier(d)))
    /\ seeded_rng' = IF NextIter(loc.cat, loc.i)[1] = 0 THEN None
                     ELSE Advance(seeded_rng, 5)
    /\ supplier_id' = IdAfterAppend
    /\ UNCHANGED <<prog, stream, hashseed, proc, obj, nth, ncalls, used_names>>
    /\ drawn' = drawn \o Min_fields
    /\ UNCHANGED svc_vars

(* ----------------------- app.py: generate_seed_suppliers -------------- *)

\* a dict with d[k] = v done on it
Put(d, k, v) == (k :> v) @@ d

\* a dict with "del d[k]" done on it
Del(d, k) == [x \in DOMAIN d \ {k} |-> d[x]]

\* d.get(k, default)
Get(d, k, default) == IF k \in DOMAIN d THEN d[k] ELSE default

\* the keys of a dict, lowest first
RECURSIVE Ascending(_)
Ascending(keys) ==
    IF keys = {} THEN <<>>
    ELSE LET k == CHOOSE x \in keys : \A y \in keys : x <= y
         IN  <<k>> \o Ascending(keys \ {k})

\* the order of the keys of a dict after writes to it: a key that stays
\* keeps its place, a deleted key leaves, a new key goes to the end (the
\* ids of the generated list and of one request come lowest first)
Ordered(keys, d) ==
    SelectSeq(keys, LAMBDA k : k \in DOMAIN d)
        \o Ascending(DOMAIN d \ {keys[n] : n \in DOMAIN keys})

\* for supplier in seed_suppliers: ALL_SUPPLIERS[supplier['id']] = supplier
\* (the keys are inserted in the order of the list, see Ordered)
Loaded(seed_suppliers) ==
    [k \in {seed_suppliers[n].id : n \in DOMAIN seed_suppliers} |->
        LET last == CHOOSE n \in DOMAIN seed_suppliers :
                       /\ seed_suppliers[n].id = k
                       /\ \A m \in DOMAIN seed_suppliers :
                              seed_suppliers[m].id = k => m <= n
        IN  seed_suppliers[last]]

\* a process loads app.py: its string hash seed is drawn, its stores are
\* created empty, and the module calls generate_seed_suppliers(), here up
\* to the first iteration of the loops
Seed_generate_seed_suppliers ==
    /\ prog \in {"seed", "app"} /\ pc = "idle" /\ ncalls < MaxLoads
    /\ ALL_SUPPLIERS' = EmptyDict
    /\ key_order' = <<>>
    /\ USER_FAVORITES' = EmptyDict
    /\ USER_NOTES' = EmptyDict
    /\ USER_SESSIONS' = EmptyDict
    /\ UNCHANGED <<us_vars, bs_vars, auth_vars, req_vars>>
    /\ proc' = proc + 1
    /\ hashseed' \in HashSeeds
    /\ ncalls' = ncalls + 1
    /\ obj' = obj + 1
    /\ nth' = 1
    /\ suppliers' = <<>>
    /\ supplier_id' = 1
    /\ IF FirstIter[1] = 0
       THEN /\ pc' = "idle"
            /\ loc' = NoLoc
            /\ seeded_rng' = None
            /\ results' = Append(results,
                                 [proc |-> proc + 1, obj |-> obj + 1,
                                  nth |-> 1, out |-> <<>>])
       ELSE /\ pc' = "select"
            /\ loc' = LoopTop(FirstIter[1], FirstIter[2])
            /\ seeded_rng' = NewRandom(SEED)
            /\ UNCHANGED results
    /\ UNCHANGED <<prog, stream, used_names, db>>
    /\ UNCHANGED drawn

\* the draws d[from], d[from + 1], ... d[from + n - 1]
Window(r, from, n) == [m \in 1..n |-> Random(r, from + m - 1)]

\* adj, city_data, num_products and the list comprehension supplier_products
Seed_select ==
    /\ prog \in {"seed", "app"} /\ pc = "select"
    /\ LET adj == Pick(Seed_adjectives, Random(seeded_rng, 0))
           city_data == Pick(Seed_cities, Random(seeded_rng, 1))
           num_products == IntScale(Random(seeded_rng, 2), 3, 0) + 2
           d == Window(seeded_rng, 3, num_products)
       IN  /\ loc' = [loc EXCEPT
                        !.adj = adj, !.city_data = city_data,
                        !.num_products = num_products,
                        !.supplier_products =
                            [m \in 1..num_products |->
                                Pick(loc.products, d[m])]]
           /\ seeded_rng' = Advance(seeded_rng, 3 + num_products)
    /\ pc' = "build"
    /\ UNCHANGED <<prog, stream, hashseed, proc, obj, nth, ncalls, suppliers,
                   used_names, supplier_id, results>>
    /\ UNCHANGED drawn
    /\ UNCHANGED svc_vars

\* the slot of the n-th entry of a product list in the table of a set, for
\* the hash seed h: the string hash itself is not modelled, its place is
\* taken by a function that is one-to-one on the entries of a list and
\* orders them differently for different seeds
Slot(h, n) == (h * n) % SetSlots

\* list(set(xs)) for a list xs of entries of table: the distinct entries, in
\* the order of their slots
ListOfSet(xs, table) ==
    LET idx == {n \in 1..Len(table) : table[n] \in Range(xs)}
        order == CHOOSE f \in [1..Cardinality(idx) -> idx] :
                    \A a, b \in 1..Cardinality(idx) :
                        a < b => Slot(hashseed, f[a]) < Slot(hashseed, f[b])
    IN  [m \in 1..Cardinality(idx) |-> table[order[m]]]

\* the dictionary display of app.py, d[n] being its n-th draw
Seed_supplier(d) ==
    [id |-> supplier_id,
     name |-> <<loc.adj, loc.category_short, "Supply Inc.">>,
     category |-> loc.category,
     location |-> <<loc.city_data.city, loc.city_data.state>>,
     region |-> loc.city_data.state,
     rating |-> RoundTenths(d[1], 15, 35),
     aiScore |-> IntScale(d[2], 30, 70),
     products |-> ListOfSet(loc.supplier_products, loc.products),
     certifications |-> <<"ISO 9001", "EPA Certified">>,
     walmartVerified |-> Above(d[3], 4, 10),
     yearsInBusiness |-> IntScale(d[4], 40, 5),
     projectsCompleted |-> IntScale(d[5], 5000, 100)]

\* suppliers.append({...}); supplier_id += 1; when the list is returned,
\* the module stores its records in ALL_SUPPLIERS
Seed_append ==
    /\ prog \in {"seed", "app"} /\ pc = "build"
    /\ LET d == Window(seeded_rng, 0, 5)
           nx == NextIter(loc.cat, loc.i)
       IN  /\ suppliers' = Append(suppliers, Seed_supplier(d))
           /\ IF nx[1] = 0
              THEN /\ pc' = "idle"
                   /\ loc' = NoLoc
                   /\ seeded_rng' = None
                   /\ results' = Returned(Append(suppliers, Seed_supplier(d)))
                   /\ ALL_SUPPLIERS' =
                          Loaded(Append(suppliers, Seed_supplier(d)))
                   /\ key_order' =
                          Ordered(<<>>,
                                  Loaded(Append(suppliers, Seed_supplier(d))))
              ELSE /\ pc' = "select"
                   /\ loc' = LoopTop(nx[1], nx[2])
                   /\ seeded_rng' = Advance(seeded_rng, 5)
                   /\ UNCHANGED <<results, ALL_SUPPLIERS, key_order>>
    /\ supplier_id' = IdAfterAppend
    /\ UNCHANGED <<prog, stream, hashseed, proc, obj, nth, ncalls, used_names>>
    /\ UNCHANGED drawn
    /\ UNCHANGED <<USER_FAVORITES, USER_NOTES, USER_SESSIONS, us_vars, bs_vars,
                   auth_vars, req_vars, db>>

(* ----------------------- suppliers.py: SupplierGenerator --------------- *)

\* rng.randint(a, b), drawn with the value u
RandInt(u, a, b) == a + IntScale(u, b - a + 1, 0)

\* rng.sample(pool, k) for a population of n <= 21 entries, d holding the
\* k draws: result[i] = pool[j]; pool[j] = pool[n - i - 1]
RECURSIVE Sample(_, _, _, _)
Sample(pool, n, k, d) ==
    IF k = 0 THEN <<>>
    ELSE LET j == IntScale(d[1], n, 0) + 1
         IN  <<pool[j]>> \o Sample([pool EXCEPT ![j] = pool[n]],
                                   n - 1, k - 1, Tail(d))

\* u < num/den for a threshold below 1
Below(u, num, den) == IF u = Top THEN FALSE ELSE u * den < num * DrawLevels

\* SupplierGenerator(): a second generator object
S_init ==
    /\ prog = "s" /\ pc = "idle" /\ nth > 0 /\ ncalls < MaxCalls
    /\ seeded_rng' = NewRandom(SEED)
    /\ obj' = obj + 1
    /\ nth' = 0
    /\ UNCHANGED <<prog, stream, hashseed, proc, ncalls, pc, loc, suppliers,
                   used_names, supplier_id, results>>
    /\ UNCHANGED drawn
    /\ UNCHANGED svc_vars

\* the loop taken for count + 1 values of i
InRange_inclusive(i, count) == i <= count

\* "for i in range(count)": whether the body runs for this i
InRange(i, count) == i < count

\* generate_suppliers(count): entry, up to the first iteration of the loop
S_generate_suppliers ==
    /\ prog = "s" /\ pc = "idle" /\ ncalls < MaxCalls
    /\ \E count \in {-1, 0, PerCategory} :
          IF ~InRange(0, count)
          THEN /\ pc' = "idle"
               /\ loc' = NoLoc
               /\ results' = Append(results,
                                    [proc |-> proc, obj |-> obj,
                                     nth |-> nth + 1, count |-> count,
                                     out |-> <<>>])
          ELSE /\ pc' = "loop"
               /\ loc' = [count |-> count, i |-> 0]
               /\ UNCHANGED results
    /\ ncalls' = ncalls + 1
    /\ nth' = nth + 1
    /\ suppliers' = <<>>
    /\ UNCHANGED <<prog, stream, hashseed, proc, seeded_rng, obj, used_names,
                   supplier_id>>
    /\ UNCHANGED drawn
    /\ UNCHANGED svc_vars

\* the record one iteration of "for i in range(count)" appends, and the
\* number of draws it makes; the draws are taken in the order of the source
S_supplier(r, i) ==
    LET prefix == S_company_prefixes[
                      RandInt(Random(r, 0), 0, Len(S_company_prefixes) - 1) + 1]
        suffix == S_company_suffixes[
                      RandInt(Random(r, 1), 0, Len(S_company_suffixes) - 1) + 1]
        category == Pick(product_categories, Random(r, 2))
        k == RandInt(Random(r, 3), 2, 5)
        products == Sample(category.products, Len(category.products), k,
                           Window(r, 4, k))
        region == Pick(S_regions, Random(r, 4 + k))
        kc == RandInt(Random(r, 5 + k), 0, 3)
        certifications == Sample(S_certifications, Len(S_certifications), kc,
                                 Window(r, 6 + k, kc))
        p == 6 + k + kc
        rating == RoundTenths(Random(r, p), 25, 25)
        ai_score == RandInt(Random(r, p + 1), 65, 98)
        employee_count == Pick(<<10, 25, 50, 100, 250, 500, 1000, 5000>>,
                               Random(r, p + 2))
        year_founded == RandInt(Random(r, p + 3), 1950, 2020)
        verified == Below(Random(r, p + 4), 3, 10)
        city == Pick(<<"Cleveland", "Memphis", "Des Moines", "Austin",
                       "Portland", "Denver", "Phoenix", "Atlanta", "Chicago",
                       "Dallas">>, Random(r, p + 5))
    IN  [draws |-> p + 6,
         supplier |->
            [id |-> i + 1,
             name |-> <<prefix, suffix>>,
             category |-> category.category,
             region |-> region,
             location |-> <<city, region>>,
             rating |-> rating,
             aiScore |-> ai_score,
             products |-> products,
             certifications |-> certifications,
             employeeCount |-> employee_count,
             yearFounded |-> year_founded,
             verified |-> verified,
             description |-> <<SubSeq(products, 1, 2), employee_count,
                               year_founded>>]]

\* one iteration of "for i in range(count)", and the return after the last
S_append ==
    /\ prog = "s" /\ pc = "loop" /\ InRange(loc.i, loc.count)
    /\ LET made == S_supplier(seeded_rng, loc.i)
       IN  /\ suppliers' = Append(suppliers, made.supplier)
           /\ seeded_rng' = Advance(seeded_rng, made.draws)
           /\ IF InRange(loc.i + 1, loc.count)
              THEN /\ pc' = "loop"
                   /\ loc' = [loc EXCEPT !.i = @ + 1]
                   /\ UNCHANGED results
              ELSE /\ pc' = "idle"
                   /\ loc' = NoLoc
                   /\ results' = Append(results,
                                        [proc |-> proc, obj |-> obj,
                                         nth |-> nth, count |-> loc.count,
                                         out |-> Append(suppliers,
                                                        made.supplier)])
    /\ UNCHANGED <<prog, stream, hashseed, proc, obj, nth, ncalls, used_names,
                   supplier_id>>
    /\ UNCHANGED drawn
    /\ UNCHANGED svc_vars

Next ==
    \/ SG_init
    \/ SG_generate_suppliers
    \/ SG_name
    \/ City
    \/ NumProducts
    \/ Product
    \/ NumCerts
    \/ Cert
    \/ SG_append
    \/ Min_generate_suppliers
    \/ Min_name
    \/ City
    \/ NumProducts
    \/ Product
    \/ NumCerts
    \/ Cert
    \/ Min_append
    \/ Seed_generate_seed_suppliers
    \/ Seed_select
    \/ Seed_append
    \/ S_init
    \/ S_generate_suppliers
    \/ S_append

Spec == Init /\ [][Next]_vars



(* ============================== properties ============================= *)

\* the lists the calls have returned, and the list under construction
Outputs == {results[n].out : n \in DOMAIN results} \cup {suppliers}

\* every record generated so far
Records == UNION {Range(out) : out \in Outputs}

NoDuplicates(list) ==
    \A a, b \in DOMAIN list : a # b => list[a] # list[b]

HasSuffix(name) == Len(name) = 4

\* C1: two runs of the generator, each on a freshly constructed
\* SupplierGenerator or a fresh call of app_minimal's generate_suppliers,
\* return sequences that are equal element by element in every field
C1_FreshRunsAgree ==
    prog \in {"sg", "min"} =>
        \A a, b \in DOMAIN results :
            (results[a].nth = 1 /\ results[b].nth = 1)
                => results[a].out = results[b].out

C1_Witness ==
    /\ prog = "sg"
    /\ Len(results) = 2
    /\ results[1].obj # results[2].obj
    /\ Len(results[2].out) = TotalSuppliers
    /\ \E n \in 1..Len(results[2].out) :
          results[2].out[n].aiScore # results[2].out[1].aiScore

\* C2: every returned list has exactly categories x per-category-count
\* records, whatever the stream yields (suppliers_generator.py and app.py)
C2_Length ==
    prog \in {"sg", "seed"} =>
        \A n \in DOMAIN results :
            Len(results[n].out) = NumCategories * PerCategory

C2_Witness ==
    /\ prog = "sg"
    /\ Len(results) >= 1
    /\ Len(results[1].out) = NumCategories * PerCategory
    /\ \E n \in DOMAIN results[1].out : HasSuffix(results[1].out[n].name)

\* C3: the ids of a list, read in order, are 1, 2, ..., N; the counter is
\* one ahead of the number of appended records during the whole call
C3_Ids ==
    prog \in {"sg", "seed"} =>
        /\ \A out \in Outputs : \A n \in DOMAIN out : out[n].id = n
        /\ pc # "idle" => supplier_id = Len(suppliers) + 1

C3_Witness ==
    /\ prog = "sg"
    /\ pc = "name"
    /\ loc.cat = 2
    /\ loc.i = 1
    /\ loc.attempts > 1
    /\ Len(suppliers) = PerCategory + 1
    /\ suppliers[PerCategory + 1].id = PerCategory + 1

\* C4: a returned list is one block per category, the blocks are in the
\* order of the table and each has per-category-count records
C4_Blocks ==
    prog \in {"sg", "min", "seed"} =>
        \A r \in DOMAIN results :
            /\ Len(results[r].out) = NumCategories * PerCategory
            /\ \A n \in DOMAIN results[r].out :
                  results[r].out[n].category =
                      product_categories[((n - 1) \div PerCategory) + 1].category

C4_Witness ==
    /\ prog = "sg"
    /\ Len(results) = 1
    /\ results[1].out[1].category = "Lumber & Wood Products"
    /\ results[1].out[PerCategory].category = "Lumber & Wood Products"
    /\ results[1].out[PerCategory + 1].category = "Concrete & Masonry"

\* C5 (as claimed): when the name loop is left, at most 20 candidates were
\* drawn, and the name carries the numeric suffix exactly when all 20
\* candidates collided with used names
C5_SuffixExactlyAfter20 ==
    (prog \in {"sg", "min"} /\ pc = "city") =>
        /\ loc.attempts <= MaxAttempts
        /\ HasSuffix(loc.supplier_name) <=>
              (/\ loc.attempts = MaxAttempts
               /\ SubSeq(loc.supplier_name, 1, 3) \in used_names)

\* C6: every record has at least one product and every product is in the
\* product list of the record's own category
C6_Products ==
    prog \in {"sg", "min", "seed"} =>
        \A s \in Records :
            /\ Len(s.products) >= 1
            /\ \E c \in DOMAIN product_categories :
                  /\ product_categories[c].category = s.category
                  /\ Range(s.products) \subseteq
                         Range(product_categories[c].products)

C6_Witness ==
    /\ prog = "seed"
    /\ Len(results) = 1
    /\ \E n \in DOMAIN results[1].out : Len(results[1].out[n].products) = 1
    /\ \E n \in DOMAIN results[1].out : Len(results[1].out[n].products) > 1

\* C7: no product and no certification occurs twice in a record, and a
\* record never has more entries than were drawn for it
C7_NoDuplicates ==
    /\ \A s \in Records :
          NoDuplicates(s.products) /\ NoDuplicates(s.certifications)
    /\ (prog \in {"sg", "min"} /\ pc \in {"num_certs", "certs", "build"}) =>
          Len(loc.supplier_products) <= loc.num_products
    /\ (prog \in {"sg", "min"} /\ pc = "build") =>
          Len(loc.supplier_certs) <= loc.num_certs

C7_Witness ==
    /\ prog = "sg"
    /\ pc = "build"
    /\ Len(loc.supplier_products) > 1
    /\ Len(loc.supplier_products) < loc.num_products
    /\ Len(loc.supplier_certs) < loc.num_certs

\* C8: 0 <= rating <= 5 (in tenths: 50), 0 <= aiScore <= 100,
\* yearsInBusiness >= 0 and projectsCompleted >= 0 for every record and
\* every value of the draws
C8_Ranges ==
    \A s \in Records :
        /\ 0 <= s.rating /\ s.rating <= 50
        /\ 0 <= s.aiScore /\ s.aiScore <= 100
        /\ prog # "s" => s.yearsInBusiness >= 0 /\ s.projectsCompleted >= 0

C8_Witness ==
    /\ prog = "sg"
    /\ \E s \in Records : s.aiScore = 100 /\ s.rating = 50
    /\ \E s \in Records : s.aiScore = 70
    /\ \E s \in Records : s.projectsCompleted = 5099
    /\ \E s \in Records : s.yearsInBusiness = 5

\* C9 (as claimed): a second call on the same generator object returns the
\* same list as the first with the same argument
C9_SameObjectAgrees ==
    prog \in {"sg", "s"} =>
        \A a, b \in DOMAIN results :
            (/\ results[a].obj = results[b].obj
             /\ prog = "s" => results[a].count = results[b].count)
                => results[a].out = results[b].out

\* C10 (as claimed): the list app.py generates is the same in every
\* process
C10_SameInEveryProcess ==
    prog = "seed" =>
        \A a, b \in DOMAIN results : results[a].out = results[b].out


\* the place of a field in the documented order of the draws: name
\* (adjective, then company type, per attempt), location, rating, aiScore,
\* product count and products, certification count and certifications,
\* walmartVerified, yearsInBusiness, projectsCompleted; 0 for a field the
\* documented order does not name
DocumentedRank(field) ==
    CASE field \in {"adjective", "type", "suffix"} -> 1
      [] field = "location" -> 2
      [] field = "rating" -> 3
      [] field = "aiScore" -> 4
      [] field = "product count" -> 5
      [] field = "product" -> 6
      [] field = "certification count" -> 7
      [] field = "certification" -> 8
      [] field = "walmartVerified" -> 9
      [] field = "yearsInBusiness" -> 10
      [] field = "projectsCompleted" -> 11
      [] OTHER -> 0

\* C11 (as claimed): within a record the draws are consumed in the
\* documented order: no draw for a documented field comes after a draw for
\* a field that the documented order puts later
C11_DocumentedOrder ==
    prog \in {"sg", "min"} =>
        \A a, b \in DOMAIN drawn :
            (/\ a < b
             /\ DocumentedRank(drawn[a]) > 0
             /\ DocumentedRank(drawn[b]) > 0)
                => DocumentedRank(drawn[a]) <= DocumentedRank(drawn[b])

\* C13: generate_suppliers(0) returns the empty list, at once and without
\* a draw: the step that returns for count = 0 is the step that entered the
\* call, and it leaves the random stream where it was
C13_ZeroCount ==
    [][(/\ prog = "s"
        /\ Len(results') > Len(results)
        /\ results'[Len(results')].count = 0)
           => /\ results'[Len(results')].out = <<>>
              /\ pc = "idle"
              /\ seeded_rng' = seeded_rng]_vars

C13_Witness ==
    /\ prog = "s"
    /\ Len(results) = 2
    /\ results[1].obj = results[2].obj
    /\ results[1].count > 0
    /\ results[2].count = 0
    /\ results[2].out = <<>>

\* C14 (as claimed): a call with a negative count raises a configuration
\* error and returns no list: no list in results comes from a negative count
C14_NegativeCountRaises ==
    prog = "s" => \A n \in DOMAIN results : results[n].count >= 0

(* ----------------------- app.py: the request handlers ------------------ *)

\* a request can be served: app.py and app_minimal.py have loaded their
\* module; the service objects of the other programs exist from the start
Serving(p) ==
    /\ prog = p
    /\ p \in {"app", "auth"} => pc = "idle" /\ Len(results) = 1
    /\ nreq < MaxRequests

\* the supplier ids that requests name: the first generated id and the first
\* id that no generated record has
RequestIds == {1, TotalSuppliers + 1}

\* the user_id parameter of the favourites and notes endpoints
UserIds == {"default"}

\* the rows of an uploaded CSV file, cell by cell; products and
\* certifications are given by the pieces between the ";" of the cell, and
\* "bad" is a row without the rating column
ImportRows ==
    {[kind |-> "row", id |-> i, name |-> <<"Imported">>,
      category |-> "Steel & Metal", location |-> <<"Austin", "TX">>,
      region |-> "TX", rating |-> 40, aiScore |-> 80,
      products |-> <<"Rebar", "Steel Beams">>, certifications |-> <<"ISO 9001">>,
      walmartVerified |-> "True", yearsInBusiness |-> 3,
      projectsCompleted |-> 7] : i \in RequestIds}
    \cup {[kind |-> "bad"]}

\* row["walmartVerified"].lower() == "true"
IsTrueCell(cell) == cell \in {"true", "True", "TRUE"}

\* the dictionary import_suppliers builds from a row
Imported(row) ==
    [id |-> row.id, name |-> row.name, category |-> row.category,
     location |-> row.location, region |-> row.region, rating |-> row.rating,
     aiScore |-> row.aiScore, products |-> row.products,
     certifications |-> row.certifications,
     walmartVerified |-> IsTrueCell(row.walmartVerified),
     yearsInBusiness |-> row.yearsInBusiness,
     projectsCompleted |-> row.projectsCompleted]

\* POST /api/suppliers/import with a file of one row
App_import_suppliers ==
    /\ Serving("app")
    /\ \E row \in ImportRows :
          IF row.kind = "row"
          THEN /\ ALL_SUPPLIERS' = Put(ALL_SUPPLIERS, row.id, Imported(row))
               /\ resp' = [op |-> "import_suppliers", status |-> 200,
                           imported |-> 1, errors |-> 0,
                           total_suppliers_now |->
                               Cardinality(DOMAIN ALL_SUPPLIERS \cup {row.id})]
          ELSE /\ UNCHANGED ALL_SUPPLIERS
               /\ resp' = [op |-> "import_suppliers", status |-> 200,
                           imported |-> 0, errors |-> 1,
                           total_suppliers_now |->
                               Cardinality(DOMAIN ALL_SUPPLIERS)]
    /\ key_order' = Ordered(key_order, ALL_SUPPLIERS')
    /\ nreq' = nreq + 1
    /\ UNCHANGED <<prog, gen_vars, USER_FAVORITES, USER_NOTES, USER_SESSIONS,
                   us_vars, bs_vars, auth_vars, fresh, hist_vars, db>>

\* the bodies of POST /api/suppliers/add: with a name and without
AddData == {[name |-> <<"Acme">>, rating |-> 45], EmptyDict}

\* max(ALL_SUPPLIERS.keys()) + 1 if ALL_SUPPLIERS else 1
NextSupplierId ==
    IF DOMAIN ALL_SUPPLIERS = {} THEN 1
    ELSE (CHOOSE k \in DOMAIN ALL_SUPPLIERS :
             \A j \in DOMAIN ALL_SUPPLIERS : j <= k) + 1

\* the dictionary add_supplier builds
Added(supplier_data) ==
    [id |-> NextSupplierId,
     name |-> supplier_data.name,
     category |-> Get(supplier_data, "category", ""),
     location |-> Get(supplier_data, "location", <<>>),
     region |-> Get(supplier_data, "region", ""),
     rating |-> Get(supplier_data, "rating", 0),
     aiScore |-> Get(supplier_data, "aiScore", 0),
     products |-> Get(supplier_data, "products", <<>>),
     certifications |-> Get(supplier_data, "certifications", <<>>),
     walmartVerified |-> Get(supplier_data, "walmartVerified", FALSE),
     yearsInBusiness |-> Get(supplier_data, "yearsInBusiness", 0),
     projectsCompleted |-> Get(supplier_data, "projectsCompleted", 0),
     created_at |-> now]

\* POST /api/suppliers/add
App_add_supplier ==
    /\ Serving("app")
    /\ \E supplier_data \in AddData :
          IF Get(supplier_data, "name", <<>>) = <<>>
          THEN /\ UNCHANGED ALL_SUPPLIERS
               /\ resp' = [op |-> "add_supplier", status |-> 400]
          ELSE /\ ALL_SUPPLIERS' =
                      Put(ALL_SUPPLIERS, NextSupplierId, Added(supplier_data))
               /\ resp' = [op |-> "add_supplier", status |-> 200,
                           supplier_id |-> NextSupplierId]
    /\ key_order' = Ordered(key_order, ALL_SUPPLIERS')
    /\ nreq' = nreq + 1
    /\ UNCHANGED <<prog, gen_vars, USER_FAVORITES, USER_NOTES, USER_SESSIONS,
                   us_vars, bs_vars, auth_vars, fresh, hist_vars, db>>

\* the bodies of PUT /api/suppliers/{supplier_id}
EditData == {[rating |-> 0], EmptyDict}

\* the keys edit_supplier passes to update()
EditKeys ==
    {"name", "category", "location", "region", "rating", "aiScore", "products",
     "certifications", "walmartVerified", "yearsInBusiness",
     "projectsCompleted"}

\* ALL_SUPPLIERS[supplier_id].update({...}): the stored dictionary itself
\* is changed
Edited(old, supplier_data) ==
    [k \in DOMAIN old \cup EditKeys \cup {"updated_at"} |->
        IF k = "updated_at" THEN now
        ELSE IF k \in EditKeys
             THEN Get(supplier_data, k, Get(old, k, None))
             ELSE old[k]]

\* PUT /api/suppliers/{supplier_id}
App_edit_supplier ==
    /\ Serving("app")
    /\ \E sup_id \in RequestIds, supplier_data \in EditData :
          IF sup_id \notin DOMAIN ALL_SUPPLIERS
          THEN /\ UNCHANGED ALL_SUPPLIERS
               /\ resp' = [op |-> "edit_supplier", status |-> 404]
          ELSE /\ ALL_SUPPLIERS' =
                      Put(ALL_SUPPLIERS, sup_id,
                          Edited(ALL_SUPPLIERS[sup_id], supplier_data))
               /\ resp' = [op |-> "edit_supplier", status |-> 200,
                           supplier_id |-> sup_id]
    /\ key_order' = Ordered(key_order, ALL_SUPPLIERS')
    /\ nreq' = nreq + 1
    /\ UNCHANGED <<prog, gen_vars, USER_FAVORITES, USER_NOTES, USER_SESSIONS,
                   us_vars, bs_vars, auth_vars, fresh, hist_vars, db>>

\* DELETE /api/suppliers/{supplier_id}
App_delete_supplier ==
    /\ Serving("app")
    /\ \E sup_id \in RequestIds :
          IF sup_id \notin DOMAIN ALL_SUPPLIERS
          THEN /\ UNCHANGED <<ALL_SUPPLIERS, gone>>
               /\ resp' = [op |-> "delete_supplier", status |-> 404]
          ELSE /\ ALL_SUPPLIERS' = Del(ALL_SUPPLIERS, sup_id)
               /\ gone' = gone \cup ({"favorite", "note"} \X UserIds
                                        \X {sup_id})
               /\ resp' = [op |-> "delete_supplier", status |-> 200]
    /\ key_order' = Ordered(key_order, ALL_SUPPLIERS')
    /\ nreq' = nreq + 1
    /\ UNCHANGED <<prog, gen_vars, USER_FAVORITES, USER_NOTES, USER_SESSIONS,
                   us_vars, bs_vars, auth_vars, fresh, last_call, registered,
                   creates, deletes, created, issued, ended, db>>

\* where list[i:...] or list[...:i] starts or ends in a list of n entries: a
\* negative index counts from the end, an index beyond an end is that end
SliceIndex(i, n) ==
    IF i < 0 THEN (IF i + n < 0 THEN 0 ELSE i + n)
    ELSE IF i > n THEN n ELSE i

\* list[start:stop]
Slice(list, start, stop) ==
    SubSeq(list, SliceIndex(start, Len(list)) + 1,
           SliceIndex(stop, Len(list)))

\* the (skip, limit) pairs of the requests, within Query(0, ge=0) and
\* Query(100, ge=1, le=1000)
Pages == {<<0, 100>>, <<0, 1>>, <<1, 1>>}

\* the filters of the requests: min_rating (in tenths, or not given) and
\* verified_only; search, category, location, region and fixtures_hardware
\* are not given
ListFilters ==
    [min_rating : {NoValue, Value(40)}, verified_only : BOOLEAN]

\* list(ALL_SUPPLIERS.values())
Values(d, keys) == [n \in DOMAIN keys |-> d[keys[n]]]

\* results after the list comprehensions of the given filters
Listed(filters) ==
    SelectSeq(Values(ALL_SUPPLIERS, key_order),
              LAMBDA s :
                  /\ \A min_rating \in filters.min_rating :
                        Get(s, "rating", 0) >= min_rating
                  /\ filters.verified_only =>
                        Get(s, "walmartVerified", FALSE))

\* GET /api/suppliers
App_get_suppliers ==
    /\ Serving("app")
    /\ \E page \in Pages, filters \in ListFilters :
          LET skip == page[1]
              limit == page[2]
              results_ == Listed(filters)
              found == Slice(results_, skip, skip + limit)
          IN  resp' = [op |-> "get_suppliers", status |-> 200,
                       filters |-> filters, total |-> Len(results_),
                       skip |-> skip, limit |-> limit, count |-> Len(found),
                       suppliers |-> found]
    /\ nreq' = nreq + 1
    /\ UNCHANGED <<prog, gen_vars, app_vars, us_vars, bs_vars, auth_vars,
                   fresh, hist_vars, db>>

\* the records GET /api/favorites returns: the favourites whose supplier is
\* in the store
FavoritesOf(user_id) ==
    LET favorite_ids ==
            IF user_id \notin DOMAIN USER_FAVORITES THEN <<>>
            ELSE SelectSeq(USER_FAVORITES[user_id],
                           LAMBDA sid : sid \in DOMAIN ALL_SUPPLIERS)
    IN  [n \in DOMAIN favorite_ids |-> ALL_SUPPLIERS[favorite_ids[n]]]

\* GET /api/favorites
App_get_favorites ==
    /\ Serving("app")
    /\ \E user_id \in UserIds :
          resp' = [op |-> "get_favorites", status |-> 200,
                   count |-> Len(FavoritesOf(user_id)),
                   favorites |-> FavoritesOf(user_id)]
    /\ nreq' = nreq + 1
    /\ UNCHANGED <<prog, gen_vars, app_vars, us_vars, bs_vars, auth_vars,
                   fresh, hist_vars, db>>

\* list.remove(x): the first occurrence of x is taken out
RECURSIVE Remove(_, _)
Remove(list, x) ==
    IF list = <<>> THEN <<>>
    ELSE IF Head(list) = x THEN Tail(list)
    ELSE <<Head(list)>> \o Remove(Tail(list), x)

\* POST /api/favorites/add
App_add_favorite ==
    /\ Serving("app")
    /\ \E sup_id \in RequestIds, user_id \in UserIds :
          /\ USER_FAVORITES' =
                 Put(USER_FAVORITES, user_id,
                     AppendUnique(Get(USER_FAVORITES, user_id, <<>>),
                                  sup_id))
          /\ last_call' = Put(last_call, <<user_id, sup_id>>, "add")
          /\ gone' = gone \ {<<"favorite", user_id, sup_id>>}
    /\ resp' = [op |-> "add_favorite", status |-> 200]
    /\ nreq' = nreq + 1
    /\ UNCHANGED <<prog, gen_vars, ALL_SUPPLIERS, USER_NOTES, USER_SESSIONS,
                   us_vars, bs_vars, auth_vars, fresh, registered, creates,
                   deletes, created, issued, ended, key_order, db>>

\* POST /api/favorites/remove
App_remove_favorite ==
    /\ Serving("app")
    /\ \E sup_id \in RequestIds, user_id \in UserIds :
          /\ USER_FAVORITES' =
                 IF /\ user_id \in DOMAIN USER_FAVORITES
                    /\ sup_id \in Range(USER_FAVORITES[user_id])
                 THEN Put(USER_FAVORITES, user_id,
                          Remove(USER_FAVORITES[user_id], sup_id))
                 ELSE USER_FAVORITES
          /\ last_call' = Put(last_call, <<user_id, sup_id>>, "remove")
    /\ resp' = [op |-> "remove_favorite", status |-> 200]
    /\ nreq' = nreq + 1
    /\ UNCHANGED <<prog, gen_vars, ALL_SUPPLIERS, USER_NOTES, USER_SESSIONS,
                   us_vars, bs_vars, auth_vars, fresh, registered, creates,
                   deletes, created, issued, ended, gone, key_order, db>>

\* int(key) for a key made by str()
IntOf(key) == CHOOSE n \in 0..(TotalSuppliers + MaxRequests + 1) :
                 ToString(n) = key

\* the notes GET /api/notes returns: those whose supplier is in the store
NotesOf(user_id) ==
    IF user_id \notin DOMAIN USER_NOTES THEN {}
    ELSE {[supplier_id |-> IntOf(key),
           supplier_name |-> ALL_SUPPLIERS[IntOf(key)].name,
           content |-> USER_NOTES[user_id][key].text] :
             key \in {k \in DOMAIN USER_NOTES[user_id] :
                        IntOf(k) \in DOMAIN ALL_SUPPLIERS}}

\* GET /api/notes
App_get_notes ==
    /\ Serving("app")
    /\ \E user_id \in UserIds :
          resp' = [op |-> "get_notes", status |-> 200,
                   notes |-> NotesOf(user_id)]
    /\ nreq' = nreq + 1
    /\ UNCHANGED <<prog, gen_vars, app_vars, us_vars, bs_vars, auth_vars,
                   fresh, hist_vars, db>>

\* the content parameter of the notes endpoints
Contents == {"a note"}

\* POST /api/notes/add
App_add_note ==
    /\ Serving("app")
    /\ \E sup_id \in RequestIds, content \in Contents,
          user_id \in UserIds :
       /\ USER_NOTES' =
              Put(USER_NOTES, user_id,
                  Put(Get(USER_NOTES, user_id, EmptyDict),
                      ToString(sup_id),
                      [text |-> content, created_at |-> now,
                       updated_at |-> now]))
           /\ gone' = gone \ {<<"note", user_id, sup_id>>}
    /\ resp' = [op |-> "add_note", status |-> 200]
    /\ nreq' = nreq + 1
    /\ UNCHANGED <<prog, gen_vars, ALL_SUPPLIERS, USER_FAVORITES,
                   USER_SESSIONS, us_vars, bs_vars, auth_vars, fresh,
                   last_call, registered, creates, deletes, created, issued,
                   ended, key_order, db>>

\* POST /api/notes/update
App_update_note ==
    /\ Serving("app")
    /\ \E sup_id \in RequestIds, content \in Contents,
          user_id \in UserIds :
          LET mine == Get(USER_NOTES, user_id, EmptyDict)
              old == Get(mine, ToString(sup_id), EmptyDict)
          IN  /\ USER_NOTES' =
                     Put(USER_NOTES, user_id,
                         Put(mine, ToString(sup_id),
                             [text |-> content,
                              created_at |-> Get(old, "created_at", now),
                              updated_at |-> now]))
              /\ gone' = gone \ {<<"note", user_id, sup_id>>}
    /\ resp' = [op |-> "update_note", status |-> 200]
    /\ nreq' = nreq + 1
    /\ UNCHANGED <<prog, gen_vars, ALL_SUPPLIERS, USER_FAVORITES,
                   USER_SESSIONS, us_vars, bs_vars, auth_vars, fresh,
                   last_call, registered, creates, deletes, created, issued,
                   ended, key_order, db>>

\* POST /api/notes/delete
App_delete_note ==
    /\ Serving("app")
    /\ \E sup_id \in RequestIds, user_id \in UserIds :
          USER_NOTES' =
              IF /\ user_id \in DOMAIN USER_NOTES
                 /\ ToString(sup_id) \in DOMAIN USER_NOTES[user_id]
              THEN Put(USER_NOTES, user_id,
                       Del(USER_NOTES[user_id], ToString(sup_id)))
              ELSE USER_NOTES
    /\ resp' = [op |-> "delete_note", status |-> 200]
    /\ nreq' = nreq + 1
    /\ UNCHANGED <<prog, gen_vars, ALL_SUPPLIERS, USER_FAVORITES,
                   USER_SESSIONS, us_vars, bs_vars, auth_vars, fresh,
                   hist_vars, key_order, db>>

\* the n-th value uuid.uuid4() returns: a random identifier, taken to differ
\* from every earlier one
Uuid4(n) == <<"uuid", n>>

\* the (email, name) pairs of login requests: complete, and without email
Logins == {<<"ann@example.com", "Ann">>, <<"", "Ann">>}

\* POST /api/auth/login, without walmart_id
App_login ==
    /\ Serving("app")
    /\ \E request \in Logins :
          IF request[1] = "" \/ request[2] = ""
          THEN /\ UNCHANGED <<USER_SESSIONS, fresh>>
               /\ resp' = [op |-> "login", status |-> 400]
          ELSE LET session_id == Uuid4(fresh + 1)
               IN  /\ fresh' = fresh + 1
                   /\ USER_SESSIONS' =
                          Put(USER_SESSIONS, session_id,
                              [user_id |-> <<"user_", session_id>>,
                               email |-> request[1], name |-> request[2],
                               walmart_id |-> None, login_time |-> now,
                               sso_provider |-> "guest"])
                   /\ resp' = [op |-> "login", status |-> 200,
                               session_id |-> session_id]
    /\ nreq' = nreq + 1
    /\ UNCHANGED <<prog, gen_vars, ALL_SUPPLIERS, USER_FAVORITES, USER_NOTES,
                   us_vars, bs_vars, auth_vars, hist_vars, key_order, db>>

\* POST /api/auth/sso/walmart
App_walmart_sso_login ==
    /\ Serving("app")
    /\ LET session_id == Uuid4(fresh + 1)
       IN  /\ fresh' = fresh + 1
           /\ USER_SESSIONS' =
                  Put(USER_SESSIONS, session_id,
                      [user_id |-> <<"walmart_user_", session_id>>,
                       email |-> "user@walmart.com", login_time |-> now,
                       sso_provider |-> "walmart"])
           /\ resp' = [op |-> "walmart_sso_login", status |-> 200,
                       session_id |-> session_id]
    /\ nreq' = nreq + 1
    /\ UNCHANGED <<prog, gen_vars, ALL_SUPPLIERS, USER_FAVORITES, USER_NOTES,
                   us_vars, bs_vars, auth_vars, hist_vars, key_order, db>>

\* the session ids that requests name: those in the store and one that was
\* never issued
SessionIds == DOMAIN USER_SESSIONS \cup {Uuid4(0)}

\* POST /api/auth/sso/check
App_check_sso_session ==
    /\ Serving("app")
    /\ \E session_id \in SessionIds :
          resp' = IF session_id \in DOMAIN USER_SESSIONS
                  THEN [op |-> "check_sso_session", valid |-> TRUE,
                        user_id |-> USER_SESSIONS[session_id].user_id]
                  ELSE [op |-> "check_sso_session", valid |-> FALSE]
    /\ nreq' = nreq + 1
    /\ UNCHANGED <<prog, gen_vars, app_vars, us_vars, bs_vars, auth_vars,
                   fresh, hist_vars, db>>

\* POST /api/auth/logout
App_logout ==
    /\ Serving("app")
    /\ \E session_id \in SessionIds :
          USER_SESSIONS' = IF session_id \in DOMAIN USER_SESSIONS
                           THEN Del(USER_SESSIONS, session_id)
                           ELSE USER_SESSIONS
    /\ resp' = [op |-> "logout", status |-> 200]
    /\ nreq' = nreq + 1
    /\ UNCHANGED <<prog, gen_vars, ALL_SUPPLIERS, USER_FAVORITES, USER_NOTES,
                   us_vars, bs_vars, auth_vars, fresh, hist_vars, key_order, db>>

(* ---------------- app_minimal.py: register and login ------------------- *)

\* the usernames and passwords of the requests
Usernames == {"ann", "bob"}

Passwords == {"pw1", "pw2"}

\* hashlib.sha256(password.encode()).hexdigest(): the digest of a string,
\* taken to differ for different strings
hash_password(password) == <<"sha256", password>>

\* the n-th value secrets.token_hex() returns: a random token, taken to
\* differ from every earlier one
token_hex(n) == <<"token", n>>

\* the comparison left out: any password is accepted
PasswordMatches_any(user, password) == TRUE

\* user["password_hash"] == hash_password(req.password)
PasswordMatches(user, password) ==
    user.password_hash = hash_password(password)

\* the worker threads that run the synchronous handlers of app_minimal.py
MaxWorkers == 2

Workers == 1..MaxWorkers

\* POST /api/auth/register, up to "if req.username in USERS": the thread
\* answers 400, or goes on to build the user record
Auth_register_check ==
    /\ Serving("auth")
    /\ nreq + Cardinality(DOMAIN inflight) < MaxRequests
    /\ \E thread \in Workers \ DOMAIN inflight :
       \E username \in Usernames, password \in Passwords :
          IF username \in DOMAIN USERS
          THEN /\ resp' = [op |-> "register", status |-> 400,
                           username |-> username]
               /\ nreq' = nreq + 1
               /\ UNCHANGED inflight
          ELSE /\ inflight' = Put(inflight, thread,
                                  [username |-> username,
                                   password |-> password])
               /\ UNCHANGED <<resp, nreq>>
    /\ UNCHANGED <<prog, gen_vars, app_vars, us_vars, bs_vars, USERS,
                   SESSIONS, fresh, hist_vars, db>>

\* POST /api/auth/register, from "user_id = secrets.token_hex(8)" on: the
\* thread stores the record under the username and answers 200
Auth_register_store ==
    /\ prog = "auth"
    /\ \E thread \in DOMAIN inflight :
          LET req == inflight[thread]
          IN  /\ fresh' = fresh + 1
              /\ USERS' = Put(USERS, req.username,
                              [id |-> token_hex(fresh + 1),
                               username |-> req.username,
                               password_hash |-> hash_password(req.password),
                               role |-> "user", created_at |-> now])
              /\ registered' = Put(registered, req.username, req.password)
              /\ resp' = [op |-> "register", status |-> 200,
                          username |-> req.username]
              /\ inflight' = Del(inflight, thread)
    /\ nreq' = nreq + 1
    /\ UNCHANGED <<prog, gen_vars, app_vars, us_vars, bs_vars, SESSIONS,
                   last_call, creates, deletes, created, issued, ended, gone,
                   db>>

\* POST /api/auth/login
Auth_login ==
    /\ Serving("auth")
    /\ \E username \in Usernames, password \in Passwords :
          IF \/ username \notin DOMAIN USERS
             \/ ~PasswordMatches(USERS[username], password)
          THEN /\ UNCHANGED <<SESSIONS, fresh, issued>>
               /\ resp' = [op |-> "login", status |-> 401,
                           username |-> username, password |-> password]
          ELSE LET session_token == token_hex(fresh + 1)
               IN  /\ fresh' = fresh + 1
                   /\ SESSIONS' =
                          Put(SESSIONS, session_token,
                              [id |-> USERS[username].id,
                               username |-> username,
                               role |-> USERS[username].role])
                   /\ issued' = issued \cup {session_token}
                   /\ resp' = [op |-> "login", status |-> 200,
                               username |-> username, password |-> password,
                               session_token |-> session_token]
    /\ nreq' = nreq + 1
    /\ UNCHANGED <<prog, gen_vars, app_vars, us_vars, bs_vars, USERS,
                   last_call, registered, creates, deletes, created, ended,
                   gone, db, inflight>>

\* the tokens that requests name: those in the store and one never issued
AuthTokens == DOMAIN SESSIONS \cup {token_hex(0)}

\* GET /api/auth/validate
Auth_validate_session ==
    /\ Serving("auth")
    /\ \E session_token \in AuthTokens :
          resp' = IF session_token \notin DOMAIN SESSIONS
                  THEN [op |-> "validate_session", valid |-> FALSE]
                  ELSE [op |-> "validate_session", valid |-> TRUE,
                        username |-> SESSIONS[session_token].username]
    /\ nreq' = nreq + 1
    /\ UNCHANGED <<prog, gen_vars, app_vars, us_vars, bs_vars, auth_vars,
                   fresh, hist_vars, db>>

\* POST /api/auth/logout
Auth_logout ==
    /\ Serving("auth")
    /\ \E session_token \in AuthTokens :
          SESSIONS' = IF session_token \in DOMAIN SESSIONS
                      THEN Del(SESSIONS, session_token)
                      ELSE SESSIONS
    /\ resp' = [op |-> "logout", status |-> 200]
    /\ nreq' = nreq + 1
    /\ UNCHANGED <<prog, gen_vars, app_vars, us_vars, bs_vars, USERS, fresh,
                   hist_vars, db, inflight>>

\* the (skip, limit) pairs of the requests: "skip: int = 0, limit: int = 100"
\* takes every integer
AnyPages == {<<0, 100>>, <<1, 1>>, <<-1, 100>>, <<0, -1>>}

\* GET /api/suppliers of app_minimal.py: ALL_SUPPLIERS is the list
\* generate_suppliers() returned when the module was loaded
Auth_get_suppliers ==
    /\ Serving("auth")
    /\ \E page \in AnyPages :
          LET skip == page[1]
              limit == page[2]
              found == Slice(results[1].out, skip, skip + limit)
          IN  resp' = [op |-> "get_suppliers", status |-> 200,
                       total |-> Len(results[1].out),
                       skip |-> skip, limit |-> limit, count |-> Len(found),
                       suppliers |-> found]
    /\ nreq' = nreq + 1
    /\ UNCHANGED <<prog, gen_vars, app_vars, us_vars, bs_vars, auth_vars,
                   fresh, hist_vars, db>>

(* ---------------- backend/services.py: SupplierService ----------------- *)

\* the SupplierCreate objects passed to create()
SupplierCreates ==
    {[name |-> <<n>>, category |-> "Lumber & Wood Products",
      location |-> <<"Test", "TX">>, region |-> "TX", rating |-> 45,
      ai_score |-> 85, products |-> <<"Lumber">>, certifications |-> <<>>,
      walmart_verified |-> TRUE, years_in_business |-> 10,
      projects_completed |-> 100] : n \in {"Test Supplier", "Other"}}

\* the ids the calls name: those handed out so far and the next one
ServiceIds == 1.._next_id

\* supplier_data.dict() with id, created_at and updated_at set
Created(supplier_data) ==
    [k \in DOMAIN supplier_data \cup {"id", "created_at", "updated_at"} |->
        IF k = "id" THEN _next_id
        ELSE IF k \in {"created_at", "updated_at"} THEN now
        ELSE supplier_data[k]]

\* SupplierService.create
BS_create ==
    /\ Serving("bs")
    /\ \E supplier_data \in SupplierCreates :
          /\ _suppliers' = Put(_suppliers, _next_id, Created(supplier_data))
          /\ created' = Put(created, _next_id,
                             [data |-> supplier_data, since |-> "created"])
          /\ resp' = [op |-> "create", supplier |-> Created(supplier_data)]
    /\ _next_id' = _next_id + 1
    /\ creates' = creates + 1
    /\ nreq' = nreq + 1
    /\ UNCHANGED <<prog, gen_vars, app_vars, us_vars, _users, _user_favorites,
                   _user_notes, auth_vars, fresh, last_call, registered,
                   deletes, issued, ended, gone, db>>

\* what SupplierService.get(id) returns: the stored fields, or None
Got(id) == IF id \in DOMAIN _suppliers THEN Value(_suppliers[id]) ELSE NoValue

\* SupplierService.get
BS_get ==
    /\ Serving("bs")
    /\ \E id \in ServiceIds :
          resp' = [op |-> "get", supplier_id |-> id, supplier |-> Got(id)]
    /\ nreq' = nreq + 1
    /\ UNCHANGED <<prog, gen_vars, app_vars, us_vars, bs_vars, auth_vars,
                   fresh, hist_vars, db>>

\* the dictionaries passed to update()
Updates == {[rating |-> 10], [id |-> 2]}

\* supplier.update(updates); supplier['updated_at'] = datetime.now()
Updated(supplier, updates) ==
    [k \in DOMAIN supplier \cup DOMAIN updates |->
        IF k = "updated_at" THEN now
        ELSE IF k \in DOMAIN updates THEN updates[k]
        ELSE supplier[k]]

\* SupplierService.update
BS_update ==
    /\ Serving("bs")
    /\ \E id \in ServiceIds, updates \in Updates :
          IF id \notin DOMAIN _suppliers
          THEN /\ UNCHANGED <<_suppliers, created>>
               /\ resp' = [op |-> "update", supplier_id |-> id,
                           supplier |-> NoValue]
          ELSE /\ _suppliers' =
                      Put(_suppliers, id, Updated(_suppliers[id], updates))
               /\ created' = [created EXCEPT ![id].since = "updated"]
               /\ resp' = [op |-> "update", supplier_id |-> id,
                           supplier |->
                               Value(Updated(_suppliers[id], updates))]
    /\ nreq' = nreq + 1
    /\ UNCHANGED <<prog, gen_vars, app_vars, us_vars, _next_id, _users,
                   _user_favorites, _user_notes, auth_vars, fresh, last_call,
                   registered, creates, deletes, issued, ended, gone, db>>

\* the entry kept
Deleted_kept(d, id) == d

\* del self._suppliers[supplier_id]
Deleted(d, id) == Del(d, id)

\* SupplierService.delete
BS_delete ==
    /\ Serving("bs")
    /\ \E id \in ServiceIds :
          IF id \in DOMAIN _suppliers
          THEN /\ _suppliers' = Deleted(_suppliers, id)
               /\ created' = [created EXCEPT ![id].since = "deleted"]
               /\ deletes' = deletes + 1
               /\ resp' = [op |-> "delete", supplier_id |-> id,
                           result |-> TRUE]
          ELSE /\ UNCHANGED <<_suppliers, created, deletes>>
               /\ resp' = [op |-> "delete", supplier_id |-> id,
                           result |-> FALSE]
    /\ nreq' = nreq + 1
    /\ UNCHANGED <<prog, gen_vars, app_vars, us_vars, _next_id, _users,
                   _user_favorites, _user_notes, auth_vars, fresh, last_call,
                   registered, creates, issued, ended, gone, db>>

\* what SupplierService.count() returns: len(self._suppliers)
Counted == Cardinality(DOMAIN _suppliers)

\* SupplierService.count
BS_count ==
    /\ Serving("bs")
    /\ resp' = [op |-> "count", result |-> Counted]
    /\ nreq' = nreq + 1
    /\ UNCHANGED <<prog, gen_vars, app_vars, us_vars, bs_vars, auth_vars,
                   fresh, hist_vars, db>>

(* --------------------- SupplierService.search --------------------------- *)

\* the characters of the strings that search looks into
Chars(text) ==
    CASE text = "Test Supplier" ->
             <<"T", "e", "s", "t", " ", "S", "u", "p", "p", "l", "i", "e", "r">>
      [] text = "Other" -> <<"O", "t", "h", "e", "r">>
      [] text = "Lumber" -> <<"L", "u", "m", "b", "e", "r">>

UpperCase == <<"L", "O", "S", "T">>

LowerCase == <<"l", "o", "s", "t">>

\* str.lower()
lower(chars) ==
    [n \in DOMAIN chars |->
        IF \E k \in DOMAIN UpperCase : UpperCase[k] = chars[n]
        THEN LowerCase[CHOOSE k \in DOMAIN UpperCase : UpperCase[k] = chars[n]]
        ELSE chars[n]]

\* q in text
Contains(text, q) ==
    \E i \in 0..(Len(text) - Len(q)) : SubSeq(text, i + 1, i + Len(q)) = q

\* ' '.join(products)
RECURSIVE Joined(_)
Joined(products) ==
    IF products = <<>> THEN <<>>
    ELSE IF Len(products) = 1 THEN Chars(products[1])
    ELSE Chars(products[1]) \o <<" ">> \o Joined(Tail(products))

\* self._suppliers.values(): the records in the order of their insertion,
\* which is the order of the ids
RECURSIVE ValuesFrom(_, _)
ValuesFrom(d, id) ==
    IF \A k \in DOMAIN d : k < id THEN <<>>
    ELSE IF id \in DOMAIN d THEN <<d[id]>> \o ValuesFrom(d, id + 1)
    ELSE ValuesFrom(d, id + 1)

\* the SearchFilter objects passed to search(): query <<>> stands for None,
\* min_rating in tenths
SearchFilters ==
    {[query |-> query, category |-> category, region |-> None,
      min_rating |-> min_rating, min_ai_score |-> 0,
      walmart_verified_only |-> FALSE, limit |-> page[1], offset |-> page[2]] :
        query \in {<<>>, <<"T", "e", "s", "t">>},
        category \in {None, "Lumber & Wood Products"},
        min_rating \in {0, 46},
        page \in {<<50, 0>>, <<1, 1>>}}

\* the conditions of the list comprehensions of search, each applied only
\* when its filter is truthy
Matches(s, filters) ==
    /\ filters.query # <<>> =>
          \/ Contains(lower(Chars(s.name[1])), lower(filters.query))
          \/ Contains(lower(Joined(s.products)), lower(filters.query))
    /\ filters.category # None => s.category = filters.category
    /\ filters.region # None => s.region = filters.region
    /\ filters.min_rating # 0 => s.rating >= filters.min_rating
    /\ filters.min_ai_score # 0 => s.ai_score >= filters.min_ai_score
    /\ filters.walmart_verified_only => s.walmart_verified

\* results is a list as soon as one comprehension has run; without any it is
\* still the dict_values view
IsList(filters) ==
    \/ filters.query # <<>>
    \/ filters.category # None
    \/ filters.region # None
    \/ filters.min_rating # 0
    \/ filters.min_ai_score # 0
    \/ filters.walmart_verified_only

\* SupplierService.search: len() works on the view, slicing it raises
\* TypeError
BS_search ==
    /\ Serving("bs")
    /\ \E filters \in SearchFilters :
          LET found == SelectSeq(ValuesFrom(_suppliers, 1),
                                 LAMBDA s : Matches(s, filters))
          IN  resp' = IF IsList(filters)
                      THEN [op |-> "search", filters |-> filters,
                            total |-> Len(found), limit |-> filters.limit,
                            offset |-> filters.offset,
                            items |-> Slice(found, filters.offset,
                                            filters.offset + filters.limit)]
                      ELSE [op |-> "search", filters |-> filters,
                            raised |-> "TypeError"]
    /\ nreq' = nreq + 1
    /\ UNCHANGED <<prog, gen_vars, app_vars, us_vars, bs_vars, auth_vars,
                   fresh, hist_vars, db>>

(* ------------------ backend/services.py: UserService ------------------- *)

\* the user ids (emails) of the calls
BSUsers == {"ann@example.com"}

\* the supplier ids of the favourites calls
FavoriteIds == {1, 2}

\* UserService.create_user: the favourites and notes of the id start empty
BS_create_user ==
    /\ Serving("bs")
    /\ \E user_id \in BSUsers :
          /\ _users' = Put(_users, user_id,
                           [id |-> user_id, email |-> user_id,
                            created_at |-> now, updated_at |-> now,
                            is_active |-> TRUE])
          /\ _user_favorites' = Put(_user_favorites, user_id, <<>>)
          /\ _user_notes' = Put(_user_notes, user_id, EmptyDict)
          /\ last_call' = [key \in {k \in DOMAIN last_call : k[1] # user_id}
                             |-> last_call[key]]
          /\ resp' = [op |-> "create_user", user_id |-> user_id]
    /\ nreq' = nreq + 1
    /\ UNCHANGED <<prog, gen_vars, app_vars, us_vars, _suppliers, _next_id,
                   auth_vars, fresh, registered, creates, deletes, created,
                   issued, ended, gone, db>>

\* UserService.add_favorite
BS_add_favorite ==
    /\ Serving("bs")
    /\ \E user_id \in BSUsers, sup_id \in FavoriteIds :
          IF user_id \notin DOMAIN _users
          THEN /\ UNCHANGED <<_user_favorites, last_call>>
               /\ resp' = [op |-> "add_favorite", result |-> FALSE]
          ELSE /\ _user_favorites' =
                      Put(_user_favorites, user_id,
                          AppendUnique(_user_favorites[user_id], sup_id))
               /\ last_call' = Put(last_call, <<user_id, sup_id>>, "add")
               /\ resp' = [op |-> "add_favorite", result |-> TRUE]
    /\ nreq' = nreq + 1
    /\ UNCHANGED <<prog, gen_vars, app_vars, us_vars, _suppliers, _next_id,
                   _users, _user_notes, auth_vars, fresh, registered, creates,
                   deletes, created, issued, ended, gone, db>>

\* UserService.remove_favorite
BS_remove_favorite ==
    /\ Serving("bs")
    /\ \E user_id \in BSUsers, sup_id \in FavoriteIds :
          IF user_id \notin DOMAIN _users
          THEN /\ UNCHANGED <<_user_favorites, last_call>>
               /\ resp' = [op |-> "remove_favorite", result |-> FALSE]
          ELSE /\ _user_favorites' =
                      IF sup_id \in Range(_user_favorites[user_id])
                      THEN Put(_user_favorites, user_id,
                               Remove(_user_favorites[user_id], sup_id))
                      ELSE _user_favorites
               /\ last_call' =
                      Put(last_call, <<user_id, sup_id>>, "remove")
               /\ resp' = [op |-> "remove_favorite", result |-> TRUE]
    /\ nreq' = nreq + 1
    /\ UNCHANGED <<prog, gen_vars, app_vars, us_vars, _suppliers, _next_id,
                   _users, _user_notes, auth_vars, fresh, registered, creates,
                   deletes, created, issued, ended, gone, db>>

\* UserService.get_favorites
BS_get_favorites ==
    /\ Serving("bs")
    /\ \E user_id \in BSUsers :
          resp' = [op |-> "get_favorites",
                   result |-> Get(_user_favorites, user_id, <<>>)]
    /\ nreq' = nreq + 1
    /\ UNCHANGED <<prog, gen_vars, app_vars, us_vars, bs_vars, auth_vars,
                   fresh, hist_vars, db>>

(* ------- user_service.py: UserService, and the session endpoints ------- *)

\* timedelta(days=7) of login_sso and timedelta(days=1) of guest_login
SSO_DAYS == 7

GUEST_DAYS == 1

\* the readings of the clock at which calls are made: the start, the day a
\* guest session ends, the day after, and the last day
ClockReadings == {0, GUEST_DAYS, GUEST_DAYS + 1, MaxTime}

\* datetime.now() is the local wall clock, read in days here. A call reads
\* it where it stands: the calls between two steps of the clock read the
\* same value
Tick ==
    /\ prog = "us"
    /\ now < MaxTime
    /\ now' \in {t \in ClockReadings : t > now}
    /\ UNCHANGED <<prog, gen_vars, app_vars, users, favorites, notes, inbox,
                   sessions, bs_vars, auth_vars, req_vars, db>>

\* the emails of the calls
Emails == {"ann@example.com"}

\* t.isoformat() and datetime.fromisoformat(s)
isoformat(t) == <<"iso", t>>

fromisoformat(s) == s[2]

\* hashlib.sha256(f"{email}-{datetime.now()}".encode()).hexdigest(): the
\* digest is a function of the email and of the reading of the clock
SessionToken(email, t) == <<"sha256", email, t>>

\* InboxMessage(user_email, subject, ...): created now, unread
Message(subject) == [subject |-> subject, created_at |-> now, read |-> FALSE]

\* InboxMessage.id: hashlib.md5(f"{user_email}-{subject}-{datetime.now()}")
\* is a function of the email, the subject and the reading of the clock
MessageId(user_email, m) == <<"md5", user_email, m.subject, m.created_at>>

\* Note.id: hashlib.md5(f"{user_email}-{supplier_id}-{datetime.now()}")
NoteId(user_email, sup_id, t) == <<"md5", user_email, sup_id, t>>

\* the check for a registered email left out: every call registers anew
Registered_again(email) ==
    [users |-> Put(users, email, [email |-> email, role |-> "user"]),
     favorites |-> Put(favorites, email, <<>>),
     notes |-> Put(notes, email, <<>>),
     inbox |-> Put(inbox, email,
                   <<Message(<<"Welcome to Supplier Hub">>)>>)]

\* register_user: users, favorites, notes and inbox after the call
Registered(email) ==
    IF email \in DOMAIN users
    THEN [users |-> users, favorites |-> favorites, notes |-> notes,
          inbox |-> inbox]
    ELSE [users |-> Put(users, email, [email |-> email, role |-> "user"]),
          favorites |-> Put(favorites, email, <<>>),
          notes |-> Put(notes, email, <<>>),
          inbox |-> Put(inbox, email,
                   <<Message(<<"Welcome to Supplier Hub">>)>>)]

\* the favourites calls made for an email before its registration are not
\* those of the registered user
Forgotten(email) ==
    IF email \in DOMAIN users THEN last_call
    ELSE [key \in {k \in DOMAIN last_call : k[1] # email} |-> last_call[key]]

\* UserService.register_user
Us_register_user ==
    /\ Serving("us")
    /\ \E email \in Emails :
          /\ users' = Registered(email).users
          /\ favorites' = Registered(email).favorites
          /\ notes' = Registered(email).notes
          /\ inbox' = Registered(email).inbox
          /\ last_call' = Forgotten(email)
          /\ resp' = [op |-> "register_user", email |-> email]
    /\ nreq' = nreq + 1
    /\ UNCHANGED <<prog, gen_vars, app_vars, sessions, now, bs_vars, auth_vars,
                   fresh, registered, creates, deletes, created, issued, ended,
                   gone, db>>

\* a login: register_user, then the session stored under a token made from
\* the email and the clock
Login(op, email, days, sso) ==
    LET session_token == SessionToken(email, now)
    IN  /\ users' = Registered(email).users
        /\ favorites' = Registered(email).favorites
        /\ notes' = Registered(email).notes
        /\ inbox' = Registered(email).inbox
        /\ last_call' = Forgotten(email)
        /\ sessions' = Put(sessions, session_token,
                           [user_email |-> email,
                            expires |-> isoformat(now + days),
                            sso |-> sso])
        /\ issued' = issued \cup {session_token}
        /\ resp' = [op |-> op, email |-> email,
                    session_token |-> session_token]

\* UserService.login_sso, called by POST /api/auth/sso
Us_login_sso ==
    /\ Serving("us")
    /\ \E email \in Emails : Login("login_sso", email, SSO_DAYS, TRUE)
    /\ nreq' = nreq + 1
    /\ UNCHANGED <<prog, gen_vars, app_vars, now, bs_vars, auth_vars, fresh,
                   registered, creates, deletes, created, ended, gone, db>>

\* POST /api/auth/guest-login
Us_guest_login ==
    /\ Serving("us")
    /\ \E email \in Emails : Login("guest_login", email, GUEST_DAYS, FALSE)
    /\ nreq' = nreq + 1
    /\ UNCHANGED <<prog, gen_vars, app_vars, now, bs_vars, auth_vars, fresh,
                   registered, creates, deletes, created, ended, gone, db>>

\* the tokens the calls name: every token issued so far, and one that was
\* never issued
Tokens == issued \cup DOMAIN sessions \cup {SessionToken("nobody", 0)}

\* the comparison made with >=
Expired_at(session) == now >= fromisoformat(session.expires)

\* datetime.now() > expires
Expired(session) == now > fromisoformat(session.expires)

\* the comparison with the expiry left out
Validated_unexpired(session_token) ==
    IF session_token \notin DOMAIN sessions THEN NoValue
    ELSE IF sessions[session_token].user_email \in DOMAIN users
         THEN Value(users[sessions[session_token].user_email])
         ELSE NoValue

\* what validate_session(session_token) returns
Validated(session_token) ==
    IF session_token \notin DOMAIN sessions THEN NoValue
    ELSE IF Expired(sessions[session_token]) THEN NoValue
    ELSE IF sessions[session_token].user_email \in DOMAIN users
         THEN Value(users[sessions[session_token].user_email])
         ELSE NoValue

\* UserService.validate_session: a session found expired is deleted
Us_validate_session ==
    /\ Serving("us")
    /\ \E session_token \in Tokens :
          /\ IF /\ session_token \in DOMAIN sessions
                /\ Expired(sessions[session_token])
             THEN /\ sessions' = Del(sessions, session_token)
                  /\ ended' = ended \cup {session_token}
             ELSE UNCHANGED <<sessions, ended>>
          /\ resp' = [op |-> "validate_session",
                      session_token |-> session_token,
                      user |-> Validated(session_token)]
    /\ nreq' = nreq + 1
    /\ UNCHANGED <<prog, gen_vars, app_vars, users, favorites, notes, inbox,
                   now, bs_vars, auth_vars, fresh, last_call, registered,
                   creates, deletes, created, issued, gone, db>>

\* UserService.logout
Us_logout ==
    /\ Serving("us")
    /\ \E session_token \in Tokens :
          /\ sessions' = IF session_token \in DOMAIN sessions
                         THEN Del(sessions, session_token)
                         ELSE sessions
          /\ ended' = IF session_token \in issued
                      THEN ended \cup {session_token}
                      ELSE ended
          /\ resp' = [op |-> "logout", session_token |-> session_token,
                      result |-> session_token \in DOMAIN sessions]
    /\ nreq' = nreq + 1
    /\ UNCHANGED <<prog, gen_vars, app_vars, users, favorites, notes, inbox,
                   now, bs_vars, auth_vars, fresh, last_call, registered,
                   creates, deletes, created, issued, gone, db>>

\* the supplier_name parameter of add_favorite
SupplierNames == {"Acme"}

\* the supplier ids of a list of Favorite objects
FavoriteIdsOf(favs) == [n \in DOMAIN favs |-> favs[n].supplier_id]

\* UserService.add_favorite: favorites and inbox after the call, and what it
\* returns. For an email without inbox the append to the inbox raises
\* KeyError, after the favourite was added
FavoriteAdded(user_email, sup_id, supplier_name) ==
    LET mine == Get(favorites, user_email, <<>>)
        added == Put(favorites, user_email,
                     Append(mine, [supplier_id |-> sup_id,
                                   supplier_name |-> supplier_name,
                                   added_at |-> now]))
    IN  IF sup_id \in Range(FavoriteIdsOf(mine))
        THEN [favorites |-> Put(favorites, user_email, mine),
              inbox |-> inbox, out |-> [result |-> FALSE]]
        ELSE IF user_email \in DOMAIN inbox
        THEN [favorites |-> added,
              inbox |-> Put(inbox, user_email,
                            Append(inbox[user_email],
                                   Message(<<supplier_name,
                                             " added to favorites">>))),
              out |-> [result |-> TRUE]]
        ELSE [favorites |-> added, inbox |-> inbox,
              out |-> [raised |-> "KeyError"]]

\* UserService.add_favorite
Us_add_favorite ==
    /\ Serving("us")
    /\ \E user_email \in Emails, sup_id \in FavoriteIds,
          supplier_name \in SupplierNames :
          LET call == FavoriteAdded(user_email, sup_id, supplier_name)
          IN  /\ last_call' = Put(last_call, <<user_email, sup_id>>, "add")
              /\ favorites' = call.favorites
              /\ inbox' = call.inbox
              /\ resp' = [op |-> "add_favorite", user_email |-> user_email]
                            @@ call.out
    /\ nreq' = nreq + 1
    /\ UNCHANGED <<prog, gen_vars, app_vars, users, notes, sessions, now,
                   bs_vars, auth_vars, fresh, registered, creates, deletes,
                   created, issued, ended, gone, db>>

\* UserService.remove_favorite
Us_remove_favorite ==
    /\ Serving("us")
    /\ \E user_email \in Emails, sup_id \in FavoriteIds :
          IF user_email \notin DOMAIN favorites
          THEN /\ UNCHANGED <<favorites, last_call>>
               /\ resp' = [op |-> "remove_favorite", result |-> FALSE]
          ELSE /\ favorites' =
                      Put(favorites, user_email,
                          SelectSeq(favorites[user_email],
                                    LAMBDA f : f.supplier_id # sup_id))
               /\ last_call' =
                      Put(last_call, <<user_email, sup_id>>, "remove")
               /\ resp' = [op |-> "remove_favorite", result |-> TRUE]
    /\ nreq' = nreq + 1
    /\ UNCHANGED <<prog, gen_vars, app_vars, users, notes, inbox, sessions,
                   now, bs_vars, auth_vars, fresh, registered, creates,
                   deletes, created, issued, ended, gone, db>>

\* UserService.get_favorites
Us_get_favorites ==
    /\ Serving("us")
    /\ \E user_email \in Emails :
          resp' = [op |-> "get_favorites",
                   result |-> FavoriteIdsOf(Get(favorites, user_email, <<>>))]
    /\ nreq' = nreq + 1
    /\ UNCHANGED <<prog, gen_vars, app_vars, us_vars, bs_vars, auth_vars,
                   fresh, hist_vars, db>>

(* ---- user_service.py: notes and inbox; backend/app.py: the endpoints --- *)

\* the first position of a list whose element passes the test, 0 if none
FirstWith(list, test(_)) ==
    LET hits == {n \in DOMAIN list : test(list[n])}
    IN  IF hits = {} THEN 0 ELSE CHOOSE n \in hits : \A m \in hits : n <= m

\* UserService.add_note: notes after the call
NoteAdded(user_email, sup_id, content) ==
    Put(notes, user_email,
        Append(Get(notes, user_email, <<>>),
               [id |-> NoteId(user_email, sup_id, now),
                supplier_id |-> sup_id, content |-> content,
                created_at |-> now, updated_at |-> now]))

\* UserService.update_note: the first note with the id gets the content
NoteUpdated(user_email, note_id, content) ==
    LET n == FirstWith(Get(notes, user_email, <<>>),
                       LAMBDA x : x.id = note_id)
    IN  IF n = 0 THEN notes
        ELSE Put(notes, user_email,
                 [notes[user_email] EXCEPT ![n].content = content,
                                           ![n].updated_at = now])

\* UserService.delete_note
NoteDeleted(user_email, note_id) ==
    IF user_email \notin DOMAIN notes THEN notes
    ELSE Put(notes, user_email,
             SelectSeq(notes[user_email], LAMBDA x : x.id # note_id))

\* UserService.get_notes: "if supplier_id" passes every note for None and 0
NotesGot(user_email, sup_id) ==
    IF sup_id = 0 THEN Get(notes, user_email, <<>>)
    ELSE SelectSeq(Get(notes, user_email, <<>>),
                   LAMBDA x : x.supplier_id = sup_id)

\* sorted(messages, key=lambda m: m.created_at, reverse=True): the sort is
\* stable, messages created at the same reading keep their order
NewestFirst(messages) ==
    LET rank(n) ==
            1 + Cardinality({m \in DOMAIN messages :
                    \/ messages[m].created_at > messages[n].created_at
                    \/ /\ messages[m].created_at = messages[n].created_at
                       /\ m < n})
    IN  [k \in DOMAIN messages |->
            messages[CHOOSE n \in DOMAIN messages : rank(n) = k]]

\* UserService.get_inbox
InboxGot(user_email, unread_only) ==
    NewestFirst(IF unread_only
                THEN SelectSeq(Get(inbox, user_email, <<>>),
                               LAMBDA m : ~m.read)
                ELSE Get(inbox, user_email, <<>>))

\* UserService.get_unread_count
UnreadCount(user_email) ==
    Len(SelectSeq(Get(inbox, user_email, <<>>), LAMBDA m : ~m.read))

\* UserService.mark_as_read: the first message with the id is marked
MarkedRead(user_email, message_id) ==
    LET n == FirstWith(Get(inbox, user_email, <<>>),
                       LAMBDA m : MessageId(user_email, m) = message_id)
    IN  IF n = 0 THEN inbox
        ELSE Put(inbox, user_email,
                 [inbox[user_email] EXCEPT ![n].read = TRUE])

\* UserService.mark_all_as_read
AllMarkedRead(user_email) ==
    IF user_email \notin DOMAIN inbox THEN inbox
    ELSE Put(inbox, user_email,
             [n \in DOMAIN inbox[user_email] |->
                 [inbox[user_email][n] EXCEPT !.read = TRUE]])

\* UserService.delete_message
MessageDeleted(user_email, message_id) ==
    IF user_email \notin DOMAIN inbox THEN inbox
    ELSE Put(inbox, user_email,
             SelectSeq(inbox[user_email],
                       LAMBDA m : MessageId(user_email, m) # message_id))

\* the note ids and message ids the requests name: those stored, and one
\* that is not
NoteIds ==
    UNION {{x.id : x \in Range(notes[u])} : u \in DOMAIN notes}
        \cup {NoteId("nobody", 0, 0)}

MessageIds ==
    UNION {{MessageId(u, m) : m \in Range(inbox[u])} : u \in DOMAIN inbox}
        \cup {<<"md5", "nobody", <<>>, 0>>}

\* what an endpoint leaves alone unless it says otherwise
Kept ==
    [favorites |-> favorites, notes |-> notes, inbox |-> inbox,
     last_call |-> last_call, status |-> 200]

\* the head and the tail of every favourites, notes and inbox endpoint:
\*   user = user_service.validate_session(session_token)
\*   if not user: raise HTTPException(status_code=401, ...)
\* and then the call of the service for user.email; served(email) gives the
\* stores the call writes and the body returned
Endpoint(op, session_token, served(_)) ==
    /\ Serving("us")
    /\ IF /\ session_token \in DOMAIN sessions
          /\ Expired(sessions[session_token])
       THEN /\ sessions' = Del(sessions, session_token)
            /\ ended' = ended \cup {session_token}
       ELSE UNCHANGED <<sessions, ended>>
    /\ IF Validated(session_token) = NoValue
       THEN /\ resp' = [op |-> op, session_token |-> session_token,
                        status |-> 401]
            /\ UNCHANGED <<favorites, notes, inbox, last_call>>
       ELSE LET user == CHOOSE u \in Validated(session_token) : TRUE
                call == served(user.email) @@ Kept
            IN  /\ favorites' = call.favorites
                /\ notes' = call.notes
                /\ inbox' = call.inbox
                /\ last_call' = call.last_call
                /\ resp' = [op |-> op, session_token |-> session_token,
                            status |-> call.status, body |-> call.body]
    /\ nreq' = nreq + 1
    /\ UNCHANGED <<prog, gen_vars, app_vars, users, now, bs_vars, auth_vars,
                   fresh, registered, creates, deletes, created, issued, gone,
                   db>>

\* the favourites endpoints of backend/app.py
Api_favorites ==
    \E session_token \in Tokens, sup_id \in FavoriteIds :
        \/ \E supplier_name \in SupplierNames :
              Endpoint("/api/favorites/add", session_token,
                  LAMBDA email :
                      LET call == FavoriteAdded(email, sup_id, supplier_name)
                      IN  [favorites |-> call.favorites,
                           inbox |-> call.inbox,
                           last_call |-> Put(last_call, <<email, sup_id>>,
                                             "add"),
                           status |-> IF "raised" \in DOMAIN call.out
                                      THEN 500 ELSE 200,
                           body |-> call.out])
        \/ Endpoint("/api/favorites/remove", session_token,
              LAMBDA email :
                  IF email \notin DOMAIN favorites
                  THEN [body |-> [success |-> FALSE]]
                  ELSE [favorites |->
                            Put(favorites, email,
                                SelectSeq(favorites[email],
                                    LAMBDA f : f.supplier_id # sup_id)),
                        last_call |-> Put(last_call, <<email, sup_id>>,
                                          "remove"),
                        body |-> [success |-> TRUE]])
        \/ Endpoint("/api/favorites", session_token,
              LAMBDA email :
                  [body |-> [favorites |-> Get(favorites, email, <<>>)]])
        \/ Endpoint("/api/favorites/is-favorite", session_token,
              LAMBDA email :
                  [body |-> [is_favorite |->
                      sup_id \in Range(FavoriteIdsOf(
                                           Get(favorites, email, <<>>)))]])

\* the notes endpoints of backend/app.py; supplier_id = 0 stands for the
\* default None of GET /api/notes as well
Api_notes ==
    \E session_token \in Tokens, content \in Contents :
        \/ \E sup_id \in FavoriteIds :
              Endpoint("/api/notes/add", session_token,
                  LAMBDA email :
                      [notes |-> NoteAdded(email, sup_id, content),
                       body |-> [success |-> TRUE]])
        \/ \E note_id \in NoteIds :
              Endpoint("/api/notes/update", session_token,
                  LAMBDA email :
                      [notes |-> NoteUpdated(email, note_id, content),
                       status |-> IF NoteUpdated(email, note_id, content)
                                       = notes
                                  THEN 404 ELSE 200,
                       body |-> [success |-> TRUE]])
        \/ \E note_id \in NoteIds :
              Endpoint("/api/notes/delete", session_token,
                  LAMBDA email :
                      [notes |-> NoteDeleted(email, note_id),
                       body |-> [success |->
                                    NoteDeleted(email, note_id) # notes]])
        \/ \E sup_id \in FavoriteIds \cup {0} :
              Endpoint("/api/notes", session_token,
                  LAMBDA email : [body |-> [notes |-> NotesGot(email, sup_id)]])

\* the inbox endpoints of backend/app.py
Api_inbox ==
    \E session_token \in Tokens, message_id \in MessageIds :
        \/ \E unread_only \in BOOLEAN :
              Endpoint("/api/inbox", session_token,
                  LAMBDA email :
                      [body |-> [unread_count |-> UnreadCount(email),
                                 messages |-> InboxGot(email, unread_only)]])
        \/ Endpoint("/api/inbox/mark-read", session_token,
              LAMBDA email :
                  [inbox |-> MarkedRead(email, message_id),
                   body |-> [success |->
                       FirstWith(Get(inbox, email, <<>>),
                                 LAMBDA m : MessageId(email, m) = message_id)
                           # 0]])
        \/ Endpoint("/api/inbox/mark-all-read", session_token,
              LAMBDA email :
                  [inbox |-> AllMarkedRead(email),
                   body |-> [marked_count |-> UnreadCount(email)]])
        \/ Endpoint("/api/inbox/delete", session_token,
              LAMBDA email :
                  [inbox |-> MessageDeleted(email, message_id),
                   body |-> [success |->
                                MessageDeleted(email, message_id) # inbox]])
        \/ Endpoint("/api/inbox/unread-count", session_token,
              LAMBDA email : [body |-> [unread_count |-> UnreadCount(email)]])

(* ------------------- csv_importer.py: SupplierCSVImporter -------------- *)

\* the most rows a CSV file of the requests has
MaxRows == 2

\* an empty cell, which pandas reads as float('nan')
NaN == "float('nan')"

\* the cells of the 'name' column: two names, a cell of blanks, an empty cell
NameCells == {"Acme", "Bolt", "  ", NaN}

\* the uploaded files: one pd.read_csv raises on, one without the 'name'
\* column, and the files with a 'name' column and up to MaxRows rows
CsvFiles ==
    {[parsed |-> FALSE, columns |-> {}, names |-> <<>>],
     [parsed |-> TRUE, columns |-> {"category"}, names |-> <<>>]}
        \cup {[parsed |-> TRUE, columns |-> {"name", "category"}, names |-> r] :
                 r \in UNION {[1..n -> NameCells] : n \in 0..MaxRows}}

\* what db.commit() does: it returns, or it raises
Commits == {"ok", "OperationalError"}

\* str(row.get('name', '')).strip()
StrippedName(cell) ==
    IF cell = NaN THEN "nan" ELSE IF cell = "  " THEN "" ELSE cell

\* SupplierCSVImporter.__init__
NewImporter ==
    [errors |-> <<>>, warnings |-> <<>>, created |-> 0, updated |-> 0,
     failed |-> 0]

\* one iteration of "for idx, row in df.iterrows()": _import_row on the
\* session holding the rows of the given names, and the except clause around
\* it
Csv_import_row(self, names, cell, idx) ==
    LET name == StrippedName(cell)
    IN  IF name = ""
        THEN [self |-> [self EXCEPT
                           !.failed = @ + 1,
                           !.errors = Append(@, <<"Row", idx + 1,
                                                  "Supplier name is required">>)],
              names |-> names]
        ELSE IF name \in names
        THEN [self |-> [self EXCEPT !.updated = @ + 1], names |-> names]
        ELSE [self |-> [self EXCEPT !.created = @ + 1],
              names |-> names \cup {name}]

\* for idx, row in df.iterrows(), from row idx on
RECURSIVE Csv_iterrows(_, _, _, _)
Csv_iterrows(self, names, cells, idx) ==
    IF idx >= Len(cells) THEN [self |-> self, names |-> names]
    ELSE LET done == Csv_import_row(self, names, cells[idx + 1], idx)
         IN  Csv_iterrows(done.self, done.names, cells, idx + 1)

\* SupplierCSVImporter._get_report (the message repeats the three counts)
Csv_get_report(self) ==
    [success |-> self.failed = 0, created |-> self.created,
     updated |-> self.updated, failed |-> self.failed,
     total |-> self.created + self.updated + self.failed,
     errors |-> self.errors, warnings |-> self.warnings]

\* except Exception as e: self.errors.append(f"Import failed: {str(e)}")
Csv_import_failed(self, e) ==
    Csv_get_report([self EXCEPT !.errors = Append(@, <<"Import failed", e>>)])

\* SupplierCSVImporter.import_csv on a new importer, as import_suppliers_csv
\* of api_endpoints.py calls it; a session that is not committed leaves the
\* database as it was
Csv_import_csv ==
    /\ Serving("csv")
    /\ \E file \in CsvFiles, commit \in Commits :
          LET self == NewImporter
              done == Csv_iterrows(self, db, file.names, 0)
          IN  IF ~file.parsed
              THEN /\ resp' = [op |-> "import_csv", file |-> file,
                               commit |-> commit]
                              @@ Csv_import_failed(self, "EmptyDataError")
                   /\ db' = db
              ELSE IF "name" \notin file.columns
              THEN /\ resp' = [op |-> "import_csv", file |-> file,
                               commit |-> commit]
                              @@ Csv_import_failed(self,
                                     "CSV must have 'name' column")
                   /\ db' = db
              ELSE IF commit # "ok"
              THEN /\ resp' = [op |-> "import_csv", file |-> file,
                               commit |-> commit]
                              @@ Csv_import_failed(done.self, commit)
                   /\ db' = db
              ELSE /\ resp' = [op |-> "import_csv", file |-> file,
                               commit |-> commit]
                              @@ Csv_get_report(done.self)
                   /\ db' = done.names
    /\ nreq' = nreq + 1
    /\ UNCHANGED <<prog, gen_vars, app_vars, us_vars, bs_vars, auth_vars,
                   fresh, hist_vars>>

(* ------------------------- the served programs ------------------------ *)

\* the served programs: app.py draws from one stream, the others start with
\* their service objects created
InitSvc ==
    /\ prog \in {"app", "us", "bs", "auth", "csv"}
    /\ stream = [k \in 0..(StreamPeriod - 1) |-> k % (DrawLevels + 1)]
    /\ hashseed = None
    /\ proc = 0
    /\ ncalls = 0
    /\ nth = 0
    /\ obj = 0
    /\ seeded_rng = None
    /\ pc = "idle"
    /\ loc = NoLoc
    /\ suppliers = <<>>
    /\ used_names = {}
    /\ supplier_id = 0
    /\ results = <<>>
    /\ drawn = <<>>
    /\ InitStores

NextSvc ==
    \/ Min_generate_suppliers
    \/ Min_name
    \/ City
    \/ NumProducts
    \/ Product
    \/ NumCerts
    \/ Cert
    \/ Min_append
    \/ Seed_generate_seed_suppliers
    \/ Seed_select
    \/ Seed_append
    \/ App_import_suppliers
    \/ App_add_supplier
    \/ App_edit_supplier
    \/ App_delete_supplier
    \/ App_get_suppliers
    \/ App_get_favorites
    \/ App_add_favorite
    \/ App_remove_favorite
    \/ App_get_notes
    \/ App_add_note
    \/ App_update_note
    \/ App_delete_note
    \/ App_login
    \/ App_walmart_sso_login
    \/ App_check_sso_session
    \/ App_logout
    \/ Auth_register_check
    \/ Auth_register_store
    \/ Auth_login
    \/ Auth_validate_session
    \/ Auth_logout
    \/ Auth_get_suppliers
    \/ BS_create
    \/ BS_get
    \/ BS_update
    \/ BS_delete
    \/ BS_count
    \/ BS_search
    \/ BS_create_user
    \/ BS_add_favorite
    \/ BS_remove_favorite
    \/ BS_get_favorites
    \/ Tick
    \/ Us_register_user
    \/ Us_login_sso
    \/ Us_guest_login
    \/ Us_validate_session
    \/ Us_logout
    \/ Us_add_favorite
    \/ Us_remove_favorite
    \/ Us_get_favorites
    \/ Api_favorites
    \/ Api_notes
    \/ Api_inbox
    \/ Csv_import_csv

SpecSvc == InitSvc /\ [][NextSvc]_vars

(* ----------------------- app.py: the supplier store -------------------- *)

\* app.py has loaded its module and serves requests
Started == prog = "app" /\ pc = "idle" /\ Len(results) = 1

\* the records generate_seed_suppliers() returned at module load
Generated == results[1].out

\* C12: once the generated sequence is in the supplier store, after any
\* sequence of requests every generated record is still in the store with all
\* of its generated field values
C12_StoreImmutable ==
    Started =>
        \A n \in DOMAIN Generated :
            /\ Generated[n].id \in DOMAIN ALL_SUPPLIERS
            /\ \A k \in DOMAIN Generated[n] :
                  /\ k \in DOMAIN ALL_SUPPLIERS[Generated[n].id]
                  /\ ALL_SUPPLIERS[Generated[n].id][k] = Generated[n][k]

\* C15: right after app.py has started, GET /api/suppliers without filters as
\* the first request reports total == 0
C15_EmptyAtStartup ==
    [][(/\ Started
        /\ nreq = 0
        /\ nreq' = 1
        /\ resp'.op = "get_suppliers")
           => resp'.total = 0]_vars

(* --------------------------- reads and stores -------------------------- *)

\* the read-only calls: session validation and the get endpoints
ReadOps ==
    {"validate_session", "check_sso_session", "get_suppliers",
     "get_favorites", "get_notes", "get", "count"}

\* the session, favourites, notes and inbox stores of the programs
Stores ==
    <<USER_SESSIONS, USER_FAVORITES, USER_NOTES, sessions, favorites, notes,
      inbox, SESSIONS, _user_favorites, _user_notes>>

\* C16: a session-validation or other read-only call leaves the session,
\* favourites, notes and inbox stores exactly as they were
C16_ReadsKeepStores ==
    [][(nreq' = nreq + 1 /\ resp'.op \in ReadOps) => Stores' = Stores]_vars

\* C16, as amended: a read-only call leaves the stores exactly as they were,
\* except that validate_session removes the session it is asked about when
\* the clock is past the expiry of that session (and then returns no user)
C16_ReadsKeepStoresUnlessExpired ==
    [][(nreq' = nreq + 1 /\ resp'.op \in ReadOps) =>
          \/ Stores' = Stores
          \/ /\ prog = "us"
             /\ resp'.op = "validate_session"
             /\ resp'.user = NoValue
             /\ resp'.session_token \in DOMAIN sessions
             /\ now > fromisoformat(sessions[resp'.session_token].expires)
             /\ DOMAIN sessions' = DOMAIN sessions \ {resp'.session_token}
             /\ \A t \in DOMAIN sessions' : sessions'[t] = sessions[t]
             /\ <<favorites, notes, inbox>>' = <<favorites, notes, inbox>>]_vars

\* a validation has removed an expired session and left another one alone
C16_Witness ==
    /\ prog = "us"
    /\ resp.op = "validate_session"
    /\ resp.session_token \in ended
    /\ resp.session_token \notin DOMAIN sessions
    /\ DOMAIN sessions # {}

(* ----------------------- app_minimal.py: login ------------------------- *)

NoRepeats(list) ==
    \A a, b \in DOMAIN list : list[a] = list[b] => a = b

\* the list has no id twice, and has an id exactly when the latest
\* add_favorite or remove_favorite call of the user for that id was an add
FavoritesFollowCalls(user, list, ids) ==
    /\ NoRepeats(list)
    /\ \A id \in ids :
          id \in Range(list) <=> Get(last_call, <<user, id>>, "none") = "add"

\* C18: for an existing user, after any sequence of add_favorite and
\* remove_favorite calls the favourites list has no supplier id twice and has
\* an id exactly when the most recent call for that id was an add
C18_Favorites ==
    /\ Started =>
          \A u \in UserIds :
              FavoritesFollowCalls(u, Get(USER_FAVORITES, u, <<>>), RequestIds)
    /\ prog = "bs" =>
          \A u \in DOMAIN _users :
              FavoritesFollowCalls(u, _user_favorites[u], FavoriteIds)
    /\ prog = "us" =>
          \A u \in DOMAIN users :
              FavoritesFollowCalls(u, FavoriteIdsOf(favorites[u]), FavoriteIds)

\* a user has one favourite after an add for it and a remove for another id
C18_Witness ==
    /\ prog = "bs"
    /\ \E u \in DOMAIN _users :
          /\ _user_favorites[u] = <<2>>
          /\ <<u, 1>> \in DOMAIN last_call
          /\ last_call[<<u, 1>>] = "remove"
          /\ last_call[<<u, 2>>] = "add"

(* --------------------------- SupplierService --------------------------- *)

\* C19: get(i) returns the fields given to the create that returned i as long
\* as neither update(i) nor delete(i) was called, None after delete(i), and
\* count() is the number of creates minus the number of deletes that
\* returned True
C19_SupplierService ==
    prog = "bs" =>
        /\ \A i \in DOMAIN created :
              /\ created[i].since = "created" =>
                    /\ Got(i) # NoValue
                    /\ \A s \in Got(i) :
                          /\ s.id = i
                          /\ \A k \in DOMAIN created[i].data :
                                s[k] = created[i].data[k]
              /\ created[i].since = "deleted" => Got(i) = NoValue
        /\ Counted = creates - deletes

\* two suppliers were created and the first was deleted
C19_Witness ==
    /\ prog = "bs"
    /\ creates = 2
    /\ deletes = 1
    /\ DOMAIN created = {1, 2}
    /\ created[1].since = "deleted"
    /\ created[2].since = "created"

(* ------------------------ UserService: sessions ------------------------ *)

\* C20: validate_session(t) returns a user only for a token that a login
\* issued and that was neither logged out nor found expired; once t has been
\* logged out or found expired, no later validate_session(t) returns a user
C20_EndedStaysInvalid ==
    prog = "us" =>
        \A t \in Tokens :
            Validated(t) # NoValue => (t \in issued /\ t \notin ended)

(* --------------------- UserService.add_favorite ------------------------ *)

\* C23: add_favorite is all-or-nothing for every e-mail, registered or not:
\* either it returns True having added exactly one favourite and exactly one
\* inbox notification for that user, or (when it returns False or raises)
\* that user's favourites and inbox are unchanged
C23_AllOrNothing ==
    [][(prog = "us" /\ nreq' = nreq + 1 /\ resp'.op = "add_favorite") =>
          LET email == resp'.user_email
              favs(f) == Get(f, email, <<>>)
              msgs(m) == Get(m, email, <<>>)
              returned_true == /\ "result" \in DOMAIN resp'
                               /\ resp'.result = TRUE
          IN  IF returned_true
              THEN /\ Len(favs(favorites')) = Len(favs(favorites)) + 1
                   /\ Len(msgs(inbox')) = Len(msgs(inbox)) + 1
              ELSE /\ favs(favorites') = favs(favorites)
                   /\ msgs(inbox') = msgs(inbox)]_vars

(* --------------------- UserService.register_user ----------------------- *)

RegisterOps == {"register_user", "login_sso", "guest_login"}

\* the welcome messages in the inbox of an email
Welcomes(m, email) ==
    Cardinality({n \in DOMAIN Get(m, email, <<>>) :
                    m[email][n].subject = <<"Welcome to Supplier Hub">>})

Routes ==
    {"/api/favorites/add", "/api/favorites/remove", "/api/favorites",
     "/api/favorites/is-favorite", "/api/notes/add", "/api/notes/update",
     "/api/notes/delete", "/api/notes", "/api/inbox", "/api/inbox/mark-read",
     "/api/inbox/mark-all-read", "/api/inbox/delete",
     "/api/inbox/unread-count"}

\* the token names no session, or a session past its expiry, or the session
\* of nobody registered
DoesNotValidate(session_token) ==
    \/ session_token \notin DOMAIN sessions
    \/ now > fromisoformat(sessions[session_token].expires)
    \/ sessions[session_token].user_email \notin DOMAIN users

\* C22: every favourites, notes and inbox endpoint called with a session
\* token that does not validate responds 401 and leaves every user's
\* favourites, notes and inbox unchanged
C22_Unauthorized ==
    [][(/\ prog = "us"
        /\ nreq' = nreq + 1
        /\ resp'.op \in Routes
        /\ DoesNotValidate(resp'.session_token))
          => /\ resp'.status = 401
             /\ <<favorites, notes, inbox>>' = <<favorites, notes, inbox>>]_vars

\* an endpoint has refused a token whose session had expired, for a user with
\* a stored favourite
C22_Witness ==
    /\ prog = "us"
    /\ resp.op \in Routes
    /\ resp.status = 401
    /\ resp.session_token \in ended
    /\ \E u \in DOMAIN favorites : favorites[u] # <<>>

(* ------------------ app.py: favourites of deleted suppliers ------------- *)

\* C24: once delete_supplier(id) has succeeded, what get_favorites and
\* get_notes return for a user has no entry for id unless that user has added
\* the favourite or note again since the deletion, whatever add_supplier,
\* import and delete requests follow
C24_DeletedStaysGone ==
    Started =>
        \A u \in UserIds, id \in RequestIds :
            /\ <<"favorite", u, id>> \in gone =>
                  \A n \in DOMAIN FavoritesOf(u) : FavoritesOf(u)[n].id # id
            /\ <<"note", u, id>> \in gone =>
                  \A note \in NotesOf(u) : note.supplier_id # id

(* ------------------------ SupplierService: ids -------------------------- *)

\* C26: after any sequence of create, update and delete calls every stored
\* record's id field equals the key it is stored under (so get(i), when not
\* None, has id == i), and no id is assigned to two different creates
C26_IdIsKey ==
    prog = "bs" =>
        /\ \A i \in DOMAIN _suppliers :
              /\ _suppliers[i].id = i
              /\ \A supplier \in Got(i) : supplier.id = i
        /\ Cardinality(DOMAIN created) = creates

(* ------------------------- SupplierService.search ---------------------- *)

\* the stored suppliers that satisfy every set filter, in storage order
Satisfying(filters) ==
    SelectSeq(ValuesFrom(_suppliers, 1), LAMBDA s : Matches(s, filters))

\* C27: for every valid SearchFilter, also one with no filter field set,
\* search returns a result whose total is the number of stored suppliers
\* satisfying all the set filters and whose items are the matches at
\* positions offset .. offset+limit-1 in storage order
C27_Search ==
    [][(prog = "bs" /\ nreq' = nreq + 1 /\ resp'.op = "search") =>
          LET filters == resp'.filters
              found == Satisfying(filters)
          IN  /\ "total" \in DOMAIN resp'
              /\ resp'.total = Len(found)
              /\ Len(resp'.items) <= filters.limit
              /\ \A n \in DOMAIN resp'.items :
                    resp'.items[n] = found[filters.offset + n]
              /\ \A n \in 1..filters.limit :
                    filters.offset + n <= Len(found) =>
                        n \in DOMAIN resp'.items]_vars

(* ------------------------ the supplier listings ------------------------ *)

\* the entries of a list at the positions skip .. skip+limit-1, counted
\* from 0
Page(list, skip, limit) ==
    SubSeq(list, (IF skip < 0 THEN 0 ELSE skip) + 1,
           IF skip + limit < Len(list) THEN skip + limit ELSE Len(list))

\* C28: for every skip and limit the supplier-listing handlers accept, total
\* is the number of records matching the filters whatever skip and limit
\* are, the returned records are exactly the matches at positions
\* skip .. skip+limit-1 in sequence order, and no more than limit are
\* returned
C28_Pagination ==
    [][(/\ prog \in {"app", "auth"}
        /\ nreq' = nreq + 1
        /\ resp'.op = "get_suppliers")
          => LET matches == IF prog = "app" THEN Listed(resp'.filters)
                            ELSE results[1].out
             IN  /\ resp'.total = Len(matches)
                 /\ resp'.suppliers = Page(matches, resp'.skip, resp'.limit)
                 /\ Len(resp'.suppliers) <= resp'.limit]_vars

(* ------------------- SupplierGenerator: unique names ------------------- *)

\* C25: in a list of SupplierGenerator.generate_suppliers, returned or under
\* construction, two records share a name only if that name carries the
\* numeric '#n' suffix: every name without the suffix occurs exactly once
C25_PlainNamesOnce ==
    prog = "sg" =>
        \A out \in Outputs :
            \A a, b \in DOMAIN out :
                (a # b /\ out[a].name = out[b].name) => HasSuffix(out[a].name)

\* a returned list has two records with different plain names and a record
\* whose candidates collided until the suffix was appended
C25_Witness ==
    /\ prog = "sg"
    /\ Len(results) >= 1
    /\ \E a, b, c \in DOMAIN results[1].out :
          /\ a # b
          /\ ~HasSuffix(results[1].out[a].name)
          /\ ~HasSuffix(results[1].out[b].name)
          /\ results[1].out[a].name # results[1].out[b].name
          /\ HasSuffix(results[1].out[c].name)
          /\ SubSeq(results[1].out[c].name, 1, 3) = results[1].out[a].name

(* ---------------------- csv_importer.py: the report -------------------- *)

\* C29: the report of SupplierCSVImporter.import_csv has success == True only
\* if its errors list is empty, also when the import was aborted before the
\* row loop (no 'name' column) or after it (commit failed)
C29_SuccessMeansNoErrors ==
    (prog = "csv" /\ resp.op = "import_csv") =>
        (resp.success => resp.errors = <<>>)

(* --------------------- app_minimal.py: register ------------------------ *)

\* C21: for any username at most one register request ever succeeds, also
\* when worker threads handle several of them at once: a register answers
\* 200 only for a username no register has answered 200 for before, and the
\* user record stored under a username is never replaced
C21_OneRegistration ==
    [][prog = "auth" =>
          /\ (/\ nreq' = nreq + 1
              /\ resp'.op = "register"
              /\ resp'.status = 200)
                 => resp'.username \notin DOMAIN registered
          /\ \A username \in DOMAIN USERS :
                /\ username \in DOMAIN USERS'
                /\ USERS'[username] = USERS[username]]_vars

=============================================================================
